---- MODULE Spec2Model ----
(***************************************************************************)
(* Edge gateway for ECU diagnostics over CAN: the bounded ingest buffer    *)
(* (services/can_interface.py), the local spool (services/local_buffer.py) *)
(* and the publisher worker (main.py), as state machines.                  *)
(*                                                                         *)
(* Each component has its own specification over the shared variables;    *)
(* a component's specification leaves the other components' variables     *)
(* unchanged.                                                              *)
(***************************************************************************)
EXTENDS Integers, Sequences, FiniteSets, TLC

(***************************************************************************)
(* Bounds of the model.                                                    *)
(***************************************************************************)
\* CircularBuffer(max_size): the configured capacity N.
max_size == 2
\* Frames the CAN bus delivers in one run of SpecBuffer.
MaxFrames == 8
\* Frames the CAN bus delivers in one run of SpecBufferConc.
MaxFramesConc == 5
\* Messages handed to the spool in one run.
MaxMsgs == 4
\* Ticks of the clock in one run.
MaxTime == 2
\* Messages handed to the spool in one run of SpecSpoolConc.
MaxMsgsConc == 2
\* Ticks of the clock in one run of SpecSpoolConc.
MaxTimeConc == 2
\* Messages handed to the spool in one run of SpecCrash.
MaxMsgsCrash == 3
\* Ticks of the clock in one run of SpecCrash.
MaxTimeCrash == 1
\* Kills of the process in one run of SpecCrash.
MaxKills == 1
\* Calls of MQTTClient.publish in one run.
MaxPublishCalls == 3
\* MessageQueue(max_size): the configured capacity.
queue_max_size == 2
\* Messages handed to enqueue in one run.
MaxQueueMsgs == 4
\* Largest max_count passed to dequeue_batch.
MaxBatchCount == 2
\* Largest timeout passed to dequeue_batch, in iterations of 0.1 s.
MaxBatchTimeout == 2
\* Sleeps of the polling loop in one run of SpecPollerLoop.
MaxPollTicks == 14
\* Sleeps of the polling loop in one run of SpecPoller.
MaxControlTicks == 1
\* Control operations of the poller in one run.
MaxControlOps == 2
\* Seconds of one run of SpecWarn.
MaxWarnTime == 12
\* Frames the CAN bus delivers in one run of SpecIngest.
MaxCanFrames == 7
\* Frames the decoder worker takes in one run of SpecDecoder.
MaxDecoderFrames == 2
\* Sleeps of the polling loop in one run of SpecPollerPause.
MaxPauseTicks == 40
\* Frames the CAN bus delivers in one run of SpecShutdown.
MaxShutdownFrames == 2

(***************************************************************************)
(* Program constants. The spool's thresholds are scaled down to the size   *)
(* of the model's messages: a message serialises to 13 or 17 symbols, a    *)
(* stored batch to 18 symbols or more; the time window is one clock tick.  *)
(***************************************************************************)
\* LocalBuffer.MAX_BATCH_SIZE (256 KiB in the program).
MAX_BATCH_SIZE == 30
\* LocalBuffer.BATCH_TIME_WINDOW (5.0 s in the program), in ticks.
BATCH_TIME_WINDOW == 1
\* LocalBuffer.MAX_BUFFER_SIZE (1 GiB in the program).
MAX_BUFFER_SIZE == 60
\* LIMIT 10 of the eviction of untransmitted batches.
EVICT_LIMIT == 2
\* get_pending_batches(limit=10) of the publisher worker.
PUBLISH_LIMIT == 10
\* MQTTClient.publish: for attempt in range(3).
PUBLISH_ATTEMPTS == 3
\* _poll_loop: time.sleep(0.01), in ms.
POLL_SLEEP_MS == 10
\* set_interval: interval_ms < 100 is rejected.
MIN_INTERVAL_MS == 100
\* set_interval: interval_ms > 5000 is rejected.
MAX_INTERVAL_MS == 5000
\* CANInterface: buffer_size, 10000 by default, scaled.
CAN_BUFFER_SIZE == 5
\* CANInterface, BufferMonitor: warning_threshold 0.8, times 100.
WARNING_THRESHOLD_PERCENT == 80
\* _check_buffer_utilization: one warning per 60 s.
WARNING_THROTTLE_S == 60
\* EdgeGateway.start: buffer_monitor.start(interval=5.0).
MONITOR_INTERVAL_S == 5
\* EdgeGateway.can_queue: create_queue("can_frames", max_size=1000), scaled.
CAN_QUEUE_SIZE == 2
\* EdgeGateway.decoded_queue: create_queue("decoded_messages", max_size=500),
\* scaled.
DECODED_QUEUE_SIZE == 3

(***************************************************************************)
(* Generic helpers.                                                        *)
(***************************************************************************)
Range(s) == {s[i] : i \in 1..Len(s)}

Min(a, b) == IF a <= b THEN a ELSE b

(***************************************************************************)
(* State.                                                                  *)
(***************************************************************************)
VARIABLES
    \* ---- CircularBuffer (can_interface.py:39-77) ----
    buffer,             \* self.buffer: the deque, oldest frame first
    _total_received,    \* self._total_received
    _total_dropped,     \* self._total_dropped
    delivered,          \* history: the frames returned by all get_all calls
    nextFrame,          \* environment: id of the next frame the bus delivers
    \* ---- one producer in add, one consumer in get_all ----
    addPc,              \* producer's position in add
    addFrame,           \* add's argument
    addFull,            \* outcome of add's fullness test
    getPc,              \* consumer's position in get_all
    getFrames,          \* get_all's local: frames
    \* ---- LocalBuffer (local_buffer.py:38-336) ----
    now,                \* time.time(), in ticks
    _current_batch,     \* self._current_batch
    _current_batch_size,\* self._current_batch_size
    _batch_start_time,  \* self._batch_start_time
    db,                 \* table telemetry_buffer, rows in rowid order
    seq_id,             \* sqlite_sequence: the largest id ever assigned
    nextMsg,            \* environment: messageId of the next message
    sinceFlush,         \* history: messages passed to add_message since
                        \*   the previous insert
    flushLog,           \* history: per insert, the id and those messages
    lastInsert,         \* history: the table as the latest INSERT left it,
                        \*   before _check_buffer_size
    marked,             \* history: the ids mark_transmitted was called with
    \* ---- EdgeGateway._publisher_worker (main.py:243-288) ----
    pubPc,              \* the worker's position in its loop
    pubBatches,         \* batches still to visit in `for batch in batches`
    pubBatch,           \* batch: the batch being published
    pubMessages,        \* messages still to visit in `for message in messages`
    pubIndex,           \* position of the next message within its batch
    published,          \* history: <<batch id, position>> of every message
                        \*   publish_telemetry returned True for
    \* ---- stop() on the main thread against add_message on the worker ----
    running,            \* EdgeGateway.running
    connOpen,           \* LocalBuffer.conn is open
    cPc,                \* per thread: position in the code
    cRet,               \* main thread: where _store_batch returns to
    cData,              \* per thread: _store_batch's local compressed_data
    cSnap,              \* history, per thread: the messages serialised
    wMsg,               \* worker: add_message's argument
    wSize,              \* worker: the value read by `_current_batch_size +=`
    \* ---- LocalBuffer across a kill of the process and a restart ----
    disk,               \* telemetry_buffer as last committed to the file
    diskSeq,            \* sqlite_sequence as last committed
    kPc,                \* position of the process inside LocalBuffer
    kMarkId,            \* mark_transmitted's argument, 0 outside the call
    kFlushed,           \* history: per returned _store_batch, id and messages
    kEvicted,           \* history: ids deleted by a committed eviction
    kMarked,            \* history: ids of the returned mark_transmitted calls
    kLost,              \* history: messageIds in memory at a kill
    kills,              \* history: number of kills so far
    \* ---- MQTTClient (mqtt_client.py:17-236) ----
    _connected,         \* self._connected
    _publish_success,   \* self._publish_success
    _publish_failed,    \* self._publish_failed
    mCalls,             \* environment: number of publish calls so far
    mCall,              \* history: the latest publish call, its inputs and
                        \*   what it did
    mBefore,            \* history: the two counters before that call
    \* ---- MessageQueue (message_queue.py:34-195) ----
    _queue,             \* self._queue: the queue.Queue, oldest message first
    _total_enqueued,    \* self._total_enqueued
    _total_dequeued,    \* self._total_dequeued
    q_total_dropped,    \* self._total_dropped
    qNext,              \* environment: the next message handed to enqueue
    qRet,               \* the return value of the latest enqueue
    qAccepted,          \* history: the messages whose enqueue returned True
    qDelivered,         \* history: the messages returned by dequeue and
                        \*   dequeue_batch
    bPc,                \* consumer's position in dequeue_batch
    bMessages,          \* dequeue_batch's local: messages
    bMaxCount,          \* dequeue_batch's argument max_count
    bRemaining,         \* dequeue_batch's local remaining_timeout, in
                        \*   iterations of 0.1 s
    \* ---- OBD2Poller (obd2_poller.py:33-228) ----
    pid_configs,        \* self.pid_configs: the schedule, a list of PIDConfig
    pNow,               \* time.time(), in ms
    pPc,                \* the polling thread's position in _poll_loop
    current_time,       \* _poll_loop's local current_time
    pIdx,               \* position of `for pid_config in self.pid_configs`
    pOps,               \* environment: number of control operations so far
    pOp,                \* history: the latest control operation
    pRet,               \* its return value
    pLastDispatch,      \* history: per pid, when the callback was last
                        \*   called, 0 if never
    pGap,               \* history: the latest time between two consecutive
                        \*   dispatches of a pid, with its interval
    pTick,              \* history: the pids dispatched in the current pass
    pAtTop,             \* history: the schedule when the current pass began
    \* ---- DTC decoders (uds_decoder.py:269-295, obd2_decoder.py:289-319) ----
    dtcDecoder,         \* the decoder that was called: "none", "uds", "obd2"
    dtcBytes,           \* its argument dtc_bytes
    dtcCode,            \* the code it returned
    \* ---- UDSDecoder, UDSValidator (uds_decoder.py, uds_validator.py) ----
    udsOp,              \* the operation that was called: "none", "decode",
                        \*   "validate"
    udsData,            \* its argument data
    udsOut,             \* what it returned
    \* ---- OBD2Decoder (obd2_decoder.py:85-253) ----
    obdOp,              \* "decode" once decode_message has been called
    obdData,            \* its argument data
    obdOut,             \* what it returned
    \* ---- utilisation warnings (can_interface.py:231-243,
    \*      buffer_monitor.py:89-164) ----
    wNow,               \* time.time(), in s
    wLen,               \* len(self.buffer.buffer) of the CAN interface
    _last_warning_time, \* CANInterface._last_warning_time
    monWake,            \* when the monitor's time.sleep(interval) is over
    wLast,              \* history: the latest utilisation warning logged
    wPrev,              \* history: the one before it
    \* ---- the gateway and the broker (main.py:121-156) ----
    brokerUp,           \* environment: the broker can be reached
    gwStarted,          \* EdgeGateway.start has made its connect() call and
                        \*   started the workers
    \* ---- the hand-off from the CAN reader to the decoder (main.py:176-240) ----
    canBuffer,          \* CANInterface.buffer.buffer: the deque of frames
    canBufferDropped,   \* CANInterface.buffer._total_dropped
    canCounted,         \* history: the frames the buffer discarded and counted
    can_queue,          \* EdgeGateway.can_queue: frames waiting for the decoder
    canQueueDropped,    \* can_queue._total_dropped
    canRefused,         \* history: the frames can_queue refused
    decoderGot,         \* history: the frames the decoder worker dequeued
    canNext,            \* the next frame of the bus
    \* ---- the decoder worker (main.py:199-240) ----
    decFrame,           \* the frame of the latest iteration, <<>> before one
    decHanded,          \* history: the records that iteration gave to enqueue
    decoded_queue,      \* EdgeGateway.decoded_queue: records for the publisher
    decodedDropped,     \* decoded_queue._total_dropped
    decCount,           \* frames the decoder worker has taken
    \* ---- EdgeGateway.stop() against the worker loops (main.py:176-332) ----
    sdRunning,          \* EdgeGateway.running
    sdPc,               \* per thread: position in the code
    sdFlag,             \* _running of the poller, the monitor, the MQTT client
    sdBus,              \* CANInterface.bus is set and its _running is True
    sdCanQ,             \* can_queue, oldest first
    sdDecQ,             \* decoded_queue, oldest first
    sdBatch,            \* LocalBuffer._current_batch
    sdStored,           \* history: the records of the batches inserted
    sdConn,             \* LocalBuffer.conn is open
    sdNext,             \* environment: the next frame of the bus
    sdReadBefore,       \* history: the frames read while running was True
    sdFailed,           \* history: the frames whose processing raised
    sdCall,             \* which call of stop() the main thread is in, or was
    \* ---- MessageQueue.peek (services/message_queue.py:133-146) ----
    pkPc,               \* the caller of peek: "idle", or "got" between get and put
    pkMsg,              \* the message peek took out, <<>> when none
    pkRet,              \* what the last peek returned: <<m>>, <<>> for None
    pkBefore,           \* history: the queue when the last peek began
    pkDequeued          \* history: _total_dequeued when the last peek returned

bufVars == <<buffer, _total_received, _total_dropped, delivered, nextFrame>>
bufPcVars == <<addPc, addFrame, addFull, getPc, getFrames>>

spoolVars == <<now, _current_batch, _current_batch_size, _batch_start_time,
               db, seq_id>>
spoolHist == <<nextMsg, sinceFlush, flushLog, lastInsert, marked>>

pubVars == <<pubPc, pubBatches, pubBatch, pubMessages, pubIndex, published>>

concVars == <<running, connOpen, cPc, cRet, cData, cSnap, wMsg, wSize>>

crashVars == <<disk, diskSeq, kPc, kMarkId, kFlushed, kEvicted, kMarked,
               kLost, kills>>

\* The components added after the spool and the publisher worker.
mqttVars == <<_connected, _publish_success, _publish_failed, mCalls, mCall,
              mBefore>>

queueVars == <<_queue, _total_enqueued, _total_dequeued, q_total_dropped,
               qNext, qRet, qAccepted, qDelivered, bPc, bMessages, bMaxCount,
               bRemaining>>

pollVars == <<pid_configs, pNow, pPc, current_time, pIdx, pOps, pOp, pRet,
              pLastDispatch, pGap, pTick, pAtTop>>

dtcVars == <<dtcDecoder, dtcBytes, dtcCode>>

udsVars == <<udsOp, udsData, udsOut>>

obdVars == <<obdOp, obdData, obdOut>>

warnVars == <<wNow, wLen, _last_warning_time, monWake, wLast, wPrev>>

recVars == <<brokerUp, gwStarted>>

ingestVars == <<canBuffer, canBufferDropped, canCounted, can_queue,
                canQueueDropped, canRefused, decoderGot, canNext>>

routeVars == <<decFrame, decHanded, decoded_queue, decodedDropped, decCount>>

shutdownVars == <<sdRunning, sdPc, sdFlag, sdBus, sdCanQ, sdDecQ, sdBatch,
                  sdStored, sdConn, sdNext, sdReadBefore, sdFailed, sdCall>>

peekVars == <<pkPc, pkMsg, pkRet, pkBefore, pkDequeued>>

laterVars == <<crashVars, mqttVars, queueVars, pollVars, dtcVars, udsVars,
               obdVars, warnVars, recVars, ingestVars, routeVars,
               shutdownVars, peekVars>>

vars == <<bufVars, bufPcVars, spoolVars, spoolHist, pubVars, concVars,
          laterVars>>

\* What the steps of the ingest buffer, of the spool and of the publisher
\* worker leave alone.
notBuf == <<spoolVars, spoolHist, pubVars, concVars, laterVars>>
notSpool == <<bufVars, bufPcVars, pubVars, concVars, laterVars>>
notPub == <<bufVars, bufPcVars, concVars, laterVars>>
notConc == <<bufVars, bufPcVars, pubVars, sinceFlush, lastInsert, marked,
            laterVars>>

(***************************************************************************)
(* CircularBuffer.                                                         *)
(***************************************************************************)
\* Faulty variant: a full deque refuses the new item.
DequeAppendDropNewest(d, x, maxlen) ==
    IF Len(d) >= maxlen THEN d ELSE Append(d, x)

\* collections.deque(maxlen=n).append(x): a full deque discards its oldest
\* item; a deque of maxlen 0 discards x.
DequeAppend(d, x, maxlen) ==
    IF maxlen = 0 THEN d
    ELSE IF Len(d) >= maxlen THEN Append(Tail(d), x)
    ELSE Append(d, x)

\* Faulty variant: the fullness test with > for >=.
IsFullOffByOne(d) == Len(d) > max_size

\* The fullness test of add.
IsFull(d) == Len(d) >= max_size

BufInit ==
    /\ buffer = <<>>
    /\ _total_received = 0
    /\ _total_dropped = 0
    /\ delivered = <<>>
    /\ nextFrame = 1

BufPcInit ==
    /\ addPc = "idle"
    /\ addFrame = 0
    /\ addFull = FALSE
    /\ getPc = "idle"
    /\ getFrames = <<>>

\* add(frame), run to completion.
add(frame) ==
    /\ _total_dropped' = IF IsFull(buffer) THEN _total_dropped + 1
                                           ELSE _total_dropped
    /\ buffer' = DequeAppend(buffer, frame, max_size)
    /\ _total_received' = _total_received + 1

\* get_all(), run to completion; the returned list joins the history.
get_all ==
    LET frames == buffer IN
    /\ buffer' = <<>>
    /\ delivered' = delivered \o frames

\* The reader pushes the next frame of the bus.
Push ==
    /\ nextFrame <= MaxFrames
    /\ add(nextFrame)
    /\ nextFrame' = nextFrame + 1
    /\ UNCHANGED <<delivered, bufPcVars, notBuf>>

\* A consumer drains the buffer.
Drain ==
    /\ get_all
    /\ UNCHANGED <<_total_received, _total_dropped, nextFrame, bufPcVars,
                   notBuf>>

BufNext == Push \/ Drain


(***************************************************************************)
(* CircularBuffer with add and get_all interleaved statement by statement. *)
(* The producer is the only writer of the counters; list(deque),           *)
(* deque.append and deque.clear are each one step of the interpreter.      *)
(***************************************************************************)
\* add, line 50: if len(self.buffer) >= self.max_size
AddCall ==
    /\ addPc = "idle"
    /\ nextFrame <= MaxFramesConc
    /\ addFrame' = nextFrame
    /\ nextFrame' = nextFrame + 1
    /\ addFull' = IsFull(buffer)
    /\ addPc' = "counted"
    /\ UNCHANGED <<buffer, _total_received, _total_dropped, delivered,
                   getPc, getFrames, notBuf>>

\* add, line 51: self._total_dropped += 1 (when the test held)
AddCountDrop ==
    /\ addPc = "counted"
    /\ _total_dropped' = IF addFull THEN _total_dropped + 1 ELSE _total_dropped
    /\ addPc' = "append"
    /\ UNCHANGED <<buffer, _total_received, delivered, nextFrame,
                   addFrame, addFull, getPc, getFrames, notBuf>>

\* add, line 52: self.buffer.append(frame)
AddAppend ==
    /\ addPc = "append"
    /\ buffer' = DequeAppend(buffer, addFrame, max_size)
    /\ addPc' = "received"
    /\ UNCHANGED <<_total_received, _total_dropped, delivered, nextFrame,
                   addFrame, addFull, getPc, getFrames, notBuf>>

\* add, line 53: self._total_received += 1, and return
AddCountReceived ==
    /\ addPc = "received"
    /\ _total_received' = _total_received + 1
    /\ addPc' = "idle"
    /\ UNCHANGED <<buffer, _total_dropped, delivered, nextFrame,
                   addFrame, addFull, getPc, getFrames, notBuf>>

\* get_all, line 57: frames = list(self.buffer)
GetSnapshot ==
    /\ getPc = "idle"
    /\ getFrames' = buffer
    /\ getPc' = "clear"
    /\ UNCHANGED <<bufVars, addPc, addFrame, addFull, notBuf>>

\* get_all, line 58: self.buffer.clear()
GetClear ==
    /\ getPc = "clear"
    /\ buffer' = <<>>
    /\ getPc' = "return"
    /\ UNCHANGED <<_total_received, _total_dropped, delivered, nextFrame,
                   addPc, addFrame, addFull, getFrames, notBuf>>

\* get_all, line 59: return frames
GetReturn ==
    /\ getPc = "return"
    /\ delivered' = delivered \o getFrames
    /\ getFrames' = <<>>
    /\ getPc' = "idle"
    /\ UNCHANGED <<buffer, _total_received, _total_dropped, nextFrame,
                   addPc, addFrame, addFull, notBuf>>

BufConcNext ==
    \/ AddCall \/ AddCountDrop \/ AddAppend \/ AddCountReceived
    \/ GetSnapshot \/ GetClear \/ GetReturn

(***************************************************************************)
(* Serialisation: json.dumps / json.loads and gzip.compress / decompress.  *)
(* A text is a sequence of one-character strings, except that each of the  *)
(* two keys of a message is one symbol. A message is a dict                *)
(* {"messageId": int, "data": [int, ...]}.                                 *)
(***************************************************************************)
Digits == <<"0", "1", "2", "3", "4", "5", "6", "7", "8", "9">>

IsDigit(c) == \E k \in 1..10 : Digits[k] = c

DigitValue(c) == (CHOOSE k \in 1..10 : Digits[k] = c) - 1

\* The payloads of the model's messages.
Payloads == {<<>>, <<7, 7>>}

RECURSIVE json_dumps_int(_)
json_dumps_int(n) ==
    IF n < 10 THEN <<Digits[n + 1]>>
    ELSE Append(json_dumps_int(n \div 10), Digits[(n % 10) + 1])

RECURSIVE JoinInts(_)
JoinInts(d) ==
    IF d = <<>> THEN <<>>
    ELSE IF Len(d) = 1 THEN json_dumps_int(d[1])
    ELSE json_dumps_int(d[1]) \o <<",", " ">> \o JoinInts(Tail(d))

\* json.dumps of one message: {"messageId": 3, "data": [7, 7]}
json_dumps_message(m) ==
    <<"{", "messageId", ":", " ">> \o json_dumps_int(m.messageId)
        \o <<",", " ", "data", ":", " ", "[">> \o JoinInts(m.data)
        \o <<"]", "}">>

RECURSIVE JoinMessages(_)
JoinMessages(b) ==
    IF b = <<>> THEN <<>>
    ELSE IF Len(b) = 1 THEN json_dumps_message(b[1])
    ELSE json_dumps_message(b[1]) \o <<",", " ">> \o JoinMessages(Tail(b))

\* Faulty variant: the last message of a batch of several is left out.
json_dumps_truncated(b) ==
    <<"[">> \o JoinMessages(IF Len(b) > 1 THEN SubSeq(b, 1, Len(b) - 1) ELSE b)
        \o <<"]">>

\* json.dumps of the current batch, a list of messages.
json_dumps(b) == <<"[">> \o JoinMessages(b) \o <<"]">>

\* json.loads: a recursive-descent parser. A result is the value parsed
\* and the position after it; next = 0 is a parse error.
ParseError == [ok |-> FALSE, val |-> <<>>, next |-> 0]

At(t, i) == IF i >= 1 /\ i <= Len(t) THEN t[i] ELSE ""

RECURSIVE SkipSpace(_, _)
SkipSpace(t, i) == IF At(t, i) = " " THEN SkipSpace(t, i + 1) ELSE i

ExpectAt(t, j, c) == IF At(t, j) = c THEN j + 1 ELSE 0

\* The position after symbol c, or 0 when c is not the next symbol.
Expect(t, i, c) == ExpectAt(t, SkipSpace(t, i), c)

RECURSIVE ParseDigits(_, _, _)
ParseDigits(t, i, acc) ==
    IF IsDigit(At(t, i))
    THEN ParseDigits(t, i + 1, acc * 10 + DigitValue(t[i]))
    ELSE [ok |-> TRUE, val |-> acc, next |-> i]

ParseIntAt(t, j) ==
    IF IsDigit(At(t, j)) THEN ParseDigits(t, j, 0) ELSE ParseError

ParseInt(t, i) == ParseIntAt(t, SkipSpace(t, i))

\* The elements of a list of ints, from the first one to the closing "]".
RECURSIVE ParseIntElems(_, _, _)
RECURSIVE AfterInt(_, _, _)
RECURSIVE AfterIntSep(_, _, _)
ParseIntElems(t, i, acc) == AfterInt(t, ParseInt(t, i), acc)

AfterInt(t, e, acc) ==
    IF ~e.ok THEN ParseError
    ELSE AfterIntSep(t, SkipSpace(t, e.next), Append(acc, e.val))

AfterIntSep(t, j, acc) ==
    IF At(t, j) = "," THEN ParseIntElems(t, j + 1, acc)
    ELSE IF At(t, j) = "]" THEN [ok |-> TRUE, val |-> acc, next |-> j + 1]
    ELSE ParseError

IntListFrom(t, j, close) ==
    IF close # 0 THEN [ok |-> TRUE, val |-> <<>>, next |-> close]
    ELSE ParseIntElems(t, j, <<>>)

IntListBody(t, j) ==
    IF j = 0 THEN ParseError ELSE IntListFrom(t, j, Expect(t, j, "]"))

ParseIntList(t, i) == IntListBody(t, Expect(t, i, "["))

\* One message: {"messageId": int, "data": [int, ...]}
MessageEnd(id, d, close) ==
    IF close = 0 THEN ParseError
    ELSE [ok |-> TRUE,
          val |-> [messageId |-> id.val, data |-> d.val],
          next |-> close]

MessageData(t, id, d) == MessageEnd(id, d, Expect(t, d.next, "}"))

MessageId(t, id) ==
    MessageData(t, id,
        ParseIntList(t,
            Expect(t, Expect(t, Expect(t, id.next, ","), "data"), ":")))

ParseMessage(t, i) ==
    MessageId(t,
        ParseInt(t, Expect(t, Expect(t, Expect(t, i, "{"), "messageId"), ":")))

\* The elements of a list of messages, from the first to the closing "]".
RECURSIVE ParseMessages(_, _, _)
RECURSIVE AfterMessage(_, _, _)
RECURSIVE AfterMessageSep(_, _, _)
ParseMessages(t, i, acc) == AfterMessage(t, ParseMessage(t, i), acc)

AfterMessage(t, m, acc) ==
    IF ~m.ok THEN ParseError
    ELSE AfterMessageSep(t, SkipSpace(t, m.next), Append(acc, m.val))

AfterMessageSep(t, j, acc) ==
    IF At(t, j) = "," THEN ParseMessages(t, j + 1, acc)
    ELSE IF At(t, j) = "]" THEN [ok |-> TRUE, val |-> acc, next |-> j + 1]
    ELSE ParseError

MessageListFrom(t, j, close) ==
    IF close # 0 THEN [ok |-> TRUE, val |-> <<>>, next |-> close]
    ELSE ParseMessages(t, j, <<>>)

MessageListBody(t, j) ==
    IF j = 0 THEN ParseError ELSE MessageListFrom(t, j, Expect(t, j, "]"))

LoadsEnd(t, r) ==
    IF r.ok /\ SkipSpace(t, r.next) = Len(t) + 1 THEN r ELSE ParseError

\* json.loads of a batch: a list of messages and nothing after it.
json_loads(t) == LoadsEnd(t, MessageListBody(t, Expect(t, 1, "[")))

\* gzip.compress: the member header, the data, and the trailer ISIZE (the
\* length of the data, here modulo 100 in two decimal digits). The data is
\* stored, not deflated.
gzip_compress(data) ==
    <<"\\x1f\\x8b">> \o data
        \o <<Digits[((Len(data) \div 10) % 10) + 1], Digits[(Len(data) % 10) + 1]>>

\* gzip.decompress: raises on a bad header or a trailer that does not match.
gzip_decompress(z) ==
    IF /\ Len(z) >= 3
       /\ z[1] = "\\x1f\\x8b"
       /\ IsDigit(z[Len(z) - 1]) /\ IsDigit(z[Len(z)])
       /\ DigitValue(z[Len(z) - 1]) * 10 + DigitValue(z[Len(z)])
              = (Len(z) - 3) % 100
    THEN [ok |-> TRUE, val |-> SubSeq(z, 2, Len(z) - 2)]
    ELSE [ok |-> FALSE, val |-> <<>>]

\* LocalBuffer.decompress_batch: any exception yields the empty list.
LoadsOrEmpty(j) == IF j.ok THEN j.val ELSE <<>>

GunzipThenLoads(g) == IF g.ok THEN LoadsOrEmpty(json_loads(g.val)) ELSE <<>>

decompress_batch(batch) == GunzipThenLoads(gzip_decompress(batch.batch_data))

\* add_message: len(json.dumps(message).encode('utf-8'))
message_size(m) == Len(json_dumps_message(m))

(***************************************************************************)
(* The store: table telemetry_buffer and the SQL statements run on it.     *)
(***************************************************************************)
Ids(rows) == {rows[i].id : i \in 1..Len(rows)}

Limit(rows, n) == SubSeq(rows, 1, Min(n, Len(rows)))

IsSent(r) == r.transmitted

IsUnsent(r) == ~r.transmitted

RECURSIVE SumSizeBytes(_)
SumSizeBytes(rows) ==
    IF rows = <<>> THEN 0
    ELSE rows[1].size_bytes + SumSizeBytes(Tail(rows))

DeleteIds(rows, ids) ==
    LET Keep(r) == r.id \notin ids IN SelectSeq(rows, Keep)

\* Faulty variant: ORDER BY timestamp DESC.
RECURSIVE OrderByTimestampDesc(_)
OrderByTimestampDesc(rows) ==
    IF rows = <<>> THEN <<>>
    ELSE LET rest == OrderByTimestampDesc(SubSeq(rows, 1, Len(rows) - 1))
             r == rows[Len(rows)]
             k == Cardinality({i \in 1..Len(rest) :
                                 rest[i].timestamp > r.timestamp})
         IN  SubSeq(rest, 1, k) \o <<r>> \o SubSeq(rest, k + 1, Len(rest))

\* ORDER BY timestamp ASC. Rows of equal timestamp come out in rowid order,
\* the order in which the index idx_transmitted(transmitted, timestamp) and
\* the table hold them.
RECURSIVE OrderByTimestamp(_)
OrderByTimestamp(rows) ==
    IF rows = <<>> THEN <<>>
    ELSE LET rest == OrderByTimestamp(SubSeq(rows, 1, Len(rows) - 1))
             r == rows[Len(rows)]
             k == Cardinality({i \in 1..Len(rest) :
                                 rest[i].timestamp <= r.timestamp})
         IN  SubSeq(rest, 1, k) \o <<r>> \o SubSeq(rest, k + 1, Len(rest))

\* id INTEGER PRIMARY KEY AUTOINCREMENT: one more than the largest id ever
\* assigned, which sqlite_sequence remembers.
NextRowId(rows, seq) == seq + 1

\* INSERT INTO telemetry_buffer (timestamp, batch_data, size_bytes);
\* transmitted DEFAULT 0.
InsertBatch(rows, seq, timestamp, compressed_data) ==
    Append(rows, [id |-> NextRowId(rows, seq),
                  timestamp |-> timestamp,
                  batch_data |-> compressed_data,
                  size_bytes |-> Len(compressed_data),
                  transmitted |-> FALSE])

\* Faulty variant: the oldest batches go first whether transmitted or not.
check_buffer_size_oldest_first(rows) ==
    IF SumSizeBytes(rows) > MAX_BUFFER_SIZE
    THEN DeleteIds(rows, Ids(Limit(OrderByTimestamp(rows), EVICT_LIMIT)))
    ELSE rows

\* LocalBuffer._check_buffer_size
_check_buffer_size(rows) ==
    LET total_size == SumSizeBytes(rows) IN
    IF total_size > MAX_BUFFER_SIZE
    THEN LET sent == SelectSeq(rows, IsSent)
             \* LIMIT (SELECT COUNT(*) ... WHERE transmitted = 1 AND
             \*        (SELECT SUM(size_bytes) ...) > ?)
             lim == IF SumSizeBytes(rows) > MAX_BUFFER_SIZE
                    THEN Len(sent) ELSE 0
             first == DeleteIds(rows, Ids(Limit(OrderByTimestamp(sent), lim)))
             deleted == Len(rows) - Len(first)
         IN  IF deleted = 0
             THEN DeleteIds(first,
                            Ids(Limit(OrderByTimestamp(first), EVICT_LIMIT)))
             ELSE first
    ELSE rows

\* LocalBuffer.get_pending_batches(limit)
get_pending_batches(rows, limit) ==
    Limit(OrderByTimestamp(SelectSeq(rows, IsUnsent)), limit)

\* Faulty variant: UPDATE ... SET transmitted = 1 WHERE id <= ?
mark_transmitted_upto(rows, batch_id) ==
    [i \in DOMAIN rows |->
        IF rows[i].id <= batch_id THEN [rows[i] EXCEPT !.transmitted = TRUE]
        ELSE rows[i]]

\* LocalBuffer.mark_transmitted(batch_id)
mark_transmitted(rows, batch_id) ==
    [i \in DOMAIN rows |->
        IF rows[i].id = batch_id THEN [rows[i] EXCEPT !.transmitted = TRUE]
        ELSE rows[i]]

(***************************************************************************)
(* LocalBuffer, each call run to completion.                               *)
(***************************************************************************)
SpoolInit ==
    /\ now = 0
    /\ _current_batch = <<>>
    /\ _current_batch_size = 0
    /\ _batch_start_time = 0
    /\ db = <<>>
    /\ seq_id = 0
    /\ nextMsg = 1
    /\ sinceFlush = <<>>
    /\ flushLog = <<>>
    /\ lastInsert = <<>>
    /\ marked = {}

\* Faulty variant: the thresholds tested with > for >=.
ShouldStoreStrict(batch_size, time_elapsed) ==
    batch_size > MAX_BATCH_SIZE \/ time_elapsed > BATCH_TIME_WINDOW

\* add_message, lines 133-134: the flush condition.
ShouldStore(batch_size, time_elapsed) ==
    batch_size >= MAX_BATCH_SIZE \/ time_elapsed >= BATCH_TIME_WINDOW

\* LocalBuffer._store_batch, entered with the given in-memory batch.
_store_batch(batch, batch_size, hist) ==
    IF batch = <<>>
    THEN /\ _current_batch' = batch
         /\ _current_batch_size' = batch_size
         /\ sinceFlush' = hist
         /\ UNCHANGED <<_batch_start_time, db, seq_id, flushLog, lastInsert>>
    ELSE LET compressed_data == gzip_compress(json_dumps(batch))
             inserted == InsertBatch(db, seq_id, now, compressed_data)
         IN  /\ db' = _check_buffer_size(inserted)
             /\ seq_id' = inserted[Len(inserted)].id
             /\ _current_batch' = <<>>
             /\ _current_batch_size' = 0
             /\ _batch_start_time' = now
             /\ flushLog' = Append(flushLog,
                                   [id |-> inserted[Len(inserted)].id,
                                    messages |-> hist])
             /\ lastInsert' = inserted
             /\ sinceFlush' = <<>>

\* LocalBuffer.add_message(message)
add_message(message) ==
    LET batch == Append(_current_batch, message)
        batch_size == _current_batch_size + message_size(message)
        hist == Append(sinceFlush, message)
        time_elapsed == now - _batch_start_time
    IN  IF ShouldStore(batch_size, time_elapsed)
        THEN _store_batch(batch, batch_size, hist)
        ELSE /\ _current_batch' = batch
             /\ _current_batch_size' = batch_size
             /\ sinceFlush' = hist
             /\ UNCHANGED <<_batch_start_time, db, seq_id, flushLog,
                            lastInsert>>

\* LocalBuffer.flush()
flush ==
    IF _current_batch # <<>>
    THEN _store_batch(_current_batch, _current_batch_size, sinceFlush)
    ELSE UNCHANGED <<_current_batch, _current_batch_size, _batch_start_time,
                     db, seq_id, sinceFlush, flushLog, lastInsert>>

\* The clock advances.
Tick ==
    /\ now < MaxTime
    /\ now' = now + 1
    /\ UNCHANGED <<_current_batch, _current_batch_size, _batch_start_time,
                   db, seq_id, spoolHist, notSpool>>

\* The spooler hands the next message to add_message.
AddMessage ==
    /\ nextMsg <= MaxMsgs
    /\ \E d \in Payloads : add_message([messageId |-> nextMsg, data |-> d])
    /\ nextMsg' = nextMsg + 1
    /\ UNCHANGED <<now, marked, notSpool>>

\* flush() is called with messages in the batch.
Flush ==
    /\ _current_batch # <<>>
    /\ flush
    /\ UNCHANGED <<now, nextMsg, marked, notSpool>>

\* mark_transmitted is called with an id that was assigned.
MarkTransmitted ==
    /\ \E batch_id \in 1..seq_id :
          /\ db' = mark_transmitted(db, batch_id)
          /\ marked' = marked \cup ({batch_id} \cap Ids(db))
    /\ UNCHANGED <<now, _current_batch, _current_batch_size,
                   _batch_start_time, seq_id, nextMsg, sinceFlush, flushLog,
                   lastInsert, notSpool>>

SpoolNext == Tick \/ AddMessage \/ Flush \/ MarkTransmitted

(***************************************************************************)
(* EdgeGateway._publisher_worker: one decoded record per iteration is      *)
(* spooled, then, when the client is connected, the pending batches are    *)
(* published message by message.                                           *)
(***************************************************************************)
NoBatch == [id |-> 0, timestamp |-> 0, batch_data |-> <<>>, size_bytes |-> 0,
            transmitted |-> FALSE]

PubInit ==
    /\ pubPc = "dequeue"
    /\ pubBatches = <<>>
    /\ pubBatch = NoBatch
    /\ pubMessages = <<>>
    /\ pubIndex = 0
    /\ published = {}

\* Lines 250-270: dequeue a record, build the telemetry message (its
\* messageId is the clock), add it to the spool and, when is_connected(),
\* fetch the pending batches.
PubDequeue ==
    /\ pubPc = "dequeue"
    /\ nextMsg <= MaxMsgs
    /\ \E d \in Payloads : add_message([messageId |-> now, data |-> d])
    /\ nextMsg' = nextMsg + 1
    /\ \E is_connected \in BOOLEAN :
          IF is_connected
          THEN /\ pubBatches' = get_pending_batches(db', PUBLISH_LIMIT)
               /\ pubPc' = "for_batch"
          ELSE /\ pubBatches' = <<>>
               /\ pubPc' = "dequeue"
    /\ UNCHANGED <<now, marked, pubBatch, pubMessages, pubIndex, published,
                   notPub>>

\* Lines 272-274: for batch in batches: messages = decompress_batch(batch)
PubForBatch ==
    /\ pubPc = "for_batch"
    /\ IF pubBatches = <<>>
       THEN /\ pubPc' = "dequeue"
            /\ pubBatch' = NoBatch
            /\ UNCHANGED <<pubBatches, pubMessages, pubIndex>>
       ELSE /\ pubBatch' = Head(pubBatches)
            /\ pubBatches' = Tail(pubBatches)
            /\ pubMessages' = decompress_batch(Head(pubBatches))
            /\ pubIndex' = 1
            /\ pubPc' = IF decompress_batch(Head(pubBatches)) = <<>>
                        THEN "for_batch" ELSE "for_message"
    /\ UNCHANGED <<spoolVars, spoolHist, published, notPub>>

\* Lines 277-283: for message in messages: publish it; on success mark the
\* batch transmitted, on failure break out of the loop over the messages.
PubPublish ==
    /\ pubPc = "for_message"
    /\ \E publish_telemetry \in BOOLEAN :
          IF publish_telemetry
          THEN /\ published' = published \cup {<<pubBatch.id, pubIndex>>}
               /\ db' = mark_transmitted(db, pubBatch.id)
               /\ marked' = marked \cup ({pubBatch.id} \cap Ids(db))
               /\ pubMessages' = Tail(pubMessages)
               /\ pubIndex' = pubIndex + 1
               /\ pubPc' = IF Tail(pubMessages) = <<>>
                           THEN "for_batch" ELSE "for_message"
          ELSE /\ pubPc' = "for_batch"
               /\ UNCHANGED <<published, db, marked, pubMessages, pubIndex>>
    /\ UNCHANGED <<now, _current_batch, _current_batch_size,
                   _batch_start_time, seq_id, nextMsg, sinceFlush, flushLog,
                   lastInsert, pubBatches, pubBatch, notPub>>

PubNext == Tick \/ PubDequeue \/ PubForBatch \/ PubPublish

(***************************************************************************)
(* EdgeGateway.stop() on the main thread while the publisher worker is in  *)
(* add_message: LocalBuffer has no lock, so the statements of the two      *)
(* threads interleave. stop() clears the running flag, then calls          *)
(* local_buffer.flush() and local_buffer.close(); the worker tests the     *)
(* flag once per iteration.                                                *)
(***************************************************************************)
Worker == "worker"
Main == "main"

ConcInit ==
    /\ running = TRUE
    /\ connOpen = TRUE
    /\ cPc = [t \in {Worker, Main} |-> IF t = Worker THEN "loop" ELSE "run"]
    /\ cRet = "none"
    /\ cData = [t \in {Worker, Main} |-> <<>>]
    /\ cSnap = [t \in {Worker, Main} |-> <<>>]
    /\ wMsg = [messageId |-> 0, data |-> <<>>]
    /\ wSize = 0

\* Where _store_batch returns to, or where its exception is caught.
ReturnTo(t) == IF t = Worker THEN "loop" ELSE cRet

\* main.py line 247: while self.running
WorkerLoop ==
    /\ cPc[Worker] = "loop"
    /\ cPc' = [cPc EXCEPT ![Worker] = IF running THEN "dequeue" ELSE "stopped"]
    /\ UNCHANGED <<spoolVars, nextMsg, flushLog, running, connOpen, cRet,
                   cData, cSnap, wMsg, wSize, notConc>>

\* main.py lines 250-265: dequeue a record (or time out) and call
\* add_message with the telemetry built from it.
WorkerDequeue ==
    /\ cPc[Worker] = "dequeue"
    /\ \/ /\ nextMsg <= MaxMsgsConc
          /\ \E d \in Payloads : wMsg' = [messageId |-> nextMsg, data |-> d]
          /\ nextMsg' = nextMsg + 1
          /\ cPc' = [cPc EXCEPT ![Worker] = "a126"]
       \/ /\ cPc' = [cPc EXCEPT ![Worker] = "loop"]
          /\ UNCHANGED <<wMsg, nextMsg>>
    /\ UNCHANGED <<spoolVars, flushLog, running, connOpen, cRet, cData,
                   cSnap, wSize, notConc>>

\* add_message line 126: self._current_batch.append(message)
AddAppendMessage ==
    /\ cPc[Worker] = "a126"
    /\ _current_batch' = Append(_current_batch, wMsg)
    /\ cPc' = [cPc EXCEPT ![Worker] = "a127r"]
    /\ UNCHANGED <<now, _current_batch_size, _batch_start_time, db, seq_id,
                   nextMsg, flushLog, running, connOpen, cRet, cData, cSnap,
                   wMsg, wSize, notConc>>

\* add_message line 127, the read of self._current_batch_size += message_size
AddReadSize ==
    /\ cPc[Worker] = "a127r"
    /\ wSize' = _current_batch_size
    /\ cPc' = [cPc EXCEPT ![Worker] = "a127w"]
    /\ UNCHANGED <<spoolVars, nextMsg, flushLog, running, connOpen, cRet,
                   cData, cSnap, wMsg, notConc>>

\* add_message line 127, the write
AddWriteSize ==
    /\ cPc[Worker] = "a127w"
    /\ _current_batch_size' = wSize + message_size(wMsg)
    /\ cPc' = [cPc EXCEPT ![Worker] = "a133"]
    /\ UNCHANGED <<now, _current_batch, _batch_start_time, db, seq_id,
                   nextMsg, flushLog, running, connOpen, cRet, cData, cSnap,
                   wMsg, wSize, notConc>>

\* add_message lines 130-135: the flush condition
AddCheck ==
    /\ cPc[Worker] = "a133"
    /\ cPc' = [cPc EXCEPT ![Worker] =
                  IF ShouldStore(_current_batch_size, now - _batch_start_time)
                  THEN "s139" ELSE "loop"]
    /\ UNCHANGED <<spoolVars, nextMsg, flushLog, running, connOpen, cRet,
                   cData, cSnap, wMsg, wSize, notConc>>

\* _store_batch lines 139-140: if not self._current_batch: return
StoreTestEmpty(t) ==
    /\ cPc[t] = "s139"
    /\ cPc' = [cPc EXCEPT ![t] = IF _current_batch = <<>> THEN ReturnTo(t)
                                                         ELSE "s143"]
    /\ UNCHANGED <<spoolVars, nextMsg, flushLog, running, connOpen, cRet,
                   cData, cSnap, wMsg, wSize, notConc>>

\* _store_batch lines 143-147: serialise and compress the batch
StoreSerialise(t) ==
    /\ cPc[t] = "s143"
    /\ cData' = [cData EXCEPT ![t] = gzip_compress(json_dumps(_current_batch))]
    /\ cSnap' = [cSnap EXCEPT ![t] = _current_batch]
    /\ cPc' = [cPc EXCEPT ![t] = "s150"]
    /\ UNCHANGED <<spoolVars, nextMsg, flushLog, running, connOpen, cRet,
                   wMsg, wSize, notConc>>

\* _store_batch lines 150-156: INSERT and commit; conn.cursor() raises on a
\* closed connection and the worker's loop catches the exception.
StoreInsert(t) ==
    /\ cPc[t] = "s150"
    /\ IF connOpen
       THEN /\ db' = InsertBatch(db, seq_id, now, cData[t])
            /\ seq_id' = NextRowId(db, seq_id)
            /\ flushLog' = Append(flushLog, [id |-> NextRowId(db, seq_id),
                                             messages |-> cSnap[t]])
            /\ cPc' = [cPc EXCEPT ![t] = "s164"]
       ELSE /\ cPc' = [cPc EXCEPT ![t] = ReturnTo(t)]
            /\ UNCHANGED <<db, seq_id, flushLog>>
    /\ UNCHANGED <<now, _current_batch, _current_batch_size,
                   _batch_start_time, nextMsg, running, connOpen, cRet,
                   cData, cSnap, wMsg, wSize, notConc>>

\* _store_batch line 164: self._current_batch = []
StoreResetBatch(t) ==
    /\ cPc[t] = "s164"
    /\ _current_batch' = <<>>
    /\ cPc' = [cPc EXCEPT ![t] = "s165"]
    /\ UNCHANGED <<now, _current_batch_size, _batch_start_time, db, seq_id,
                   nextMsg, flushLog, running, connOpen, cRet, cData, cSnap,
                   wMsg, wSize, notConc>>

\* _store_batch line 165: self._current_batch_size = 0
StoreResetSize(t) ==
    /\ cPc[t] = "s165"
    /\ _current_batch_size' = 0
    /\ cPc' = [cPc EXCEPT ![t] = "s166"]
    /\ UNCHANGED <<now, _current_batch, _batch_start_time, db, seq_id,
                   nextMsg, flushLog, running, connOpen, cRet, cData, cSnap,
                   wMsg, wSize, notConc>>

\* _store_batch line 166: self._batch_start_time = time.time()
StoreResetTime(t) ==
    /\ cPc[t] = "s166"
    /\ _batch_start_time' = now
    /\ cPc' = [cPc EXCEPT ![t] = "s169"]
    /\ UNCHANGED <<now, _current_batch, _current_batch_size, db, seq_id,
                   nextMsg, flushLog, running, connOpen, cRet, cData, cSnap,
                   wMsg, wSize, notConc>>

\* _store_batch line 169: self._check_buffer_size(), and return
StoreCheckSize(t) ==
    /\ cPc[t] = "s169"
    /\ db' = IF connOpen THEN _check_buffer_size(db) ELSE db
    /\ cPc' = [cPc EXCEPT ![t] = ReturnTo(t)]
    /\ UNCHANGED <<now, _current_batch, _current_batch_size,
                   _batch_start_time, seq_id, nextMsg, flushLog, running,
                   connOpen, cRet, cData, cSnap, wMsg, wSize, notConc>>

\* stop() line 305: self.running = False
StopClearRunning ==
    /\ cPc[Main] = "run"
    /\ running' = FALSE
    /\ cPc' = [cPc EXCEPT ![Main] = "m321"]
    /\ UNCHANGED <<spoolVars, nextMsg, flushLog, connOpen, cRet, cData,
                   cSnap, wMsg, wSize, notConc>>

\* stop() line 321: self.local_buffer.flush()
StopFlush ==
    /\ cPc[Main] = "m321"
    /\ cPc' = [cPc EXCEPT ![Main] = IF _current_batch # <<>> THEN "s139"
                                                             ELSE "m322"]
    /\ cRet' = "m322"
    /\ UNCHANGED <<spoolVars, nextMsg, flushLog, running, connOpen, cData,
                   cSnap, wMsg, wSize, notConc>>

\* stop() line 322, close() lines 331-332: a last _store_batch
StopCloseFlush ==
    /\ cPc[Main] = "m322"
    /\ cPc' = [cPc EXCEPT ![Main] = IF _current_batch # <<>> THEN "s139"
                                                             ELSE "m334"]
    /\ cRet' = "m334"
    /\ UNCHANGED <<spoolVars, nextMsg, flushLog, running, connOpen, cData,
                   cSnap, wMsg, wSize, notConc>>

\* close() lines 334-335: self.conn.close()
StopCloseConn ==
    /\ cPc[Main] = "m334"
    /\ connOpen' = FALSE
    /\ cPc' = [cPc EXCEPT ![Main] = "done"]
    /\ UNCHANGED <<spoolVars, nextMsg, flushLog, running, cRet, cData,
                   cSnap, wMsg, wSize, notConc>>

\* The clock advances.
ConcTick ==
    /\ now < MaxTimeConc
    /\ now' = now + 1
    /\ UNCHANGED <<_current_batch, _current_batch_size, _batch_start_time,
                   db, seq_id, nextMsg, flushLog, concVars, notConc>>

StoreStep(t) ==
    \/ StoreTestEmpty(t) \/ StoreSerialise(t) \/ StoreInsert(t)
    \/ StoreResetBatch(t) \/ StoreResetSize(t) \/ StoreResetTime(t)
    \/ StoreCheckSize(t)

ConcNext ==
    \/ ConcTick
    \/ WorkerLoop \/ WorkerDequeue
    \/ AddAppendMessage \/ AddReadSize \/ AddWriteSize \/ AddCheck
    \/ StoreStep(Worker)
    \/ StopClearRunning \/ StopFlush \/ StopCloseFlush \/ StopCloseConn
    \/ StoreStep(Main)

(***************************************************************************)
(* LocalBuffer across a kill of the process. sqlite3 opens a transaction   *)
(* before an INSERT, UPDATE or DELETE and conn.commit() makes it durable;  *)
(* a kill discards the memory of the process and the open transaction,     *)
(* and the restart runs __init__ on the file as last committed.            *)
(***************************************************************************)
\* Faulty variant: commit() leaves the file as it was.
CommitDropped(view, file) == file

\* conn.commit(): the file takes the connection's view of the table.
Commit(view, file) == view

\* The telemetry data of the messages of SpecCrash: three batches of one
\* such message exceed MAX_BUFFER_SIZE.
CrashPayloads == {<<7, 7>>}

\* The messageIds of a sequence of messages.
IdsOfMessages(msgs) == {msgs[i].messageId : i \in 1..Len(msgs)}

CrashInit ==
    /\ disk = <<>>
    /\ diskSeq = 0
    /\ kPc = "idle"
    /\ kMarkId = 0
    /\ kFlushed = <<>>
    /\ kEvicted = {}
    /\ kMarked = {}
    /\ kLost = {}
    /\ kills = 0

\* What a step inside LocalBuffer leaves alone.
notCrash == <<bufVars, bufPcVars, pubVars, concVars, sinceFlush, flushLog,
              lastInsert, marked, mqttVars, queueVars, pollVars, dtcVars,
              udsVars, obdVars, warnVars, recVars, ingestVars, routeVars,
              shutdownVars, peekVars>>

\* add_message, lines 123-135: the message joins the batch and the flush
\* condition is tested.
KAddMessage ==
    /\ kPc = "idle"
    /\ nextMsg <= MaxMsgsCrash
    /\ \E d \in CrashPayloads :
         LET message == [messageId |-> nextMsg, data |-> d]
             batch_size == _current_batch_size + message_size(message)
         IN  /\ _current_batch' = Append(_current_batch, message)
             /\ _current_batch_size' = batch_size
             /\ kPc' = IF ShouldStore(batch_size, now - _batch_start_time)
                       THEN "store" ELSE "idle"
    /\ nextMsg' = nextMsg + 1
    /\ UNCHANGED <<now, _batch_start_time, db, seq_id, disk, diskSeq,
                   kMarkId, kFlushed, kEvicted, kMarked, kLost, kills,
                   notCrash>>

\* flush(), lines 326-327, called with messages in the batch.
KFlush ==
    /\ kPc = "idle"
    /\ _current_batch # <<>>
    /\ kPc' = "store"
    /\ UNCHANGED <<spoolVars, nextMsg, disk, diskSeq, kMarkId, kFlushed,
                   kEvicted, kMarked, kLost, kills, notCrash>>

\* _store_batch, lines 139-156: the batch is serialised and inserted; the
\* INSERT opens a transaction.
KInsert ==
    /\ kPc = "store"
    /\ LET inserted == InsertBatch(db, seq_id, now,
                                   gzip_compress(json_dumps(_current_batch)))
       IN  /\ db' = inserted
           /\ seq_id' = inserted[Len(inserted)].id
    /\ kPc' = "commit_insert"
    /\ UNCHANGED <<now, _current_batch, _current_batch_size,
                   _batch_start_time, nextMsg, disk, diskSeq, kMarkId,
                   kFlushed, kEvicted, kMarked, kLost, kills, notCrash>>

\* _store_batch, line 158: self.conn.commit()
KCommitInsert ==
    /\ kPc = "commit_insert"
    /\ disk' = Commit(db, disk)
    /\ diskSeq' = Commit(seq_id, diskSeq)
    /\ kPc' = "reset"
    /\ UNCHANGED <<spoolVars, nextMsg, kMarkId, kFlushed, kEvicted, kMarked,
                   kLost, kills, notCrash>>

\* _store_batch, lines 164-166: the in-memory batch is reset.
KReset ==
    /\ kPc = "reset"
    /\ _current_batch' = <<>>
    /\ _current_batch_size' = 0
    /\ _batch_start_time' = now
    /\ kFlushed' = Append(kFlushed, [id |-> seq_id,
                                     messages |-> _current_batch])
    /\ kPc' = "check"
    /\ UNCHANGED <<now, db, seq_id, nextMsg, disk, diskSeq, kMarkId,
                   kEvicted, kMarked, kLost, kills, notCrash>>

\* _check_buffer_size, lines 176-210: under the cap nothing is written; over
\* it the DELETEs open a transaction.
KCheckSize ==
    /\ kPc = "check"
    /\ db' = _check_buffer_size(db)
    /\ kPc' = IF SumSizeBytes(db) > MAX_BUFFER_SIZE
              THEN "commit_evict" ELSE "idle"
    /\ UNCHANGED <<now, _current_batch, _current_batch_size,
                   _batch_start_time, seq_id, nextMsg, disk, diskSeq,
                   kMarkId, kFlushed, kEvicted, kMarked, kLost, kills,
                   notCrash>>

\* _check_buffer_size, line 212: self.conn.commit()
KCommitEvict ==
    /\ kPc = "commit_evict"
    /\ disk' = Commit(db, disk)
    /\ diskSeq' = Commit(seq_id, diskSeq)
    /\ kEvicted' = kEvicted \cup (Ids(disk) \ Ids(disk'))
    /\ kPc' = "idle"
    /\ UNCHANGED <<spoolVars, nextMsg, kMarkId, kFlushed, kMarked, kLost,
                   kills, notCrash>>

\* mark_transmitted(batch_id), lines 254-259: the UPDATE opens a
\* transaction.
KMarkUpdate ==
    /\ kPc = "idle"
    /\ \E batch_id \in Ids(db) :
         /\ db' = mark_transmitted(db, batch_id)
         /\ kMarkId' = batch_id
    /\ kPc' = "commit_mark"
    /\ UNCHANGED <<now, _current_batch, _current_batch_size,
                   _batch_start_time, seq_id, nextMsg, disk, diskSeq,
                   kFlushed, kEvicted, kMarked, kLost, kills, notCrash>>

\* mark_transmitted, line 260: self.conn.commit(), and the call returns.
KCommitMark ==
    /\ kPc = "commit_mark"
    /\ disk' = Commit(db, disk)
    /\ diskSeq' = Commit(seq_id, diskSeq)
    /\ kMarked' = kMarked \cup {kMarkId}
    /\ kMarkId' = 0
    /\ kPc' = "idle"
    /\ UNCHANGED <<spoolVars, nextMsg, kFlushed, kEvicted, kLost, kills,
                   notCrash>>

\* The process is killed, at any position, and started again: __init__
\* (lines 60-72) starts an empty batch and opens the file, where the open
\* transaction, if any, was never committed.
KillAndRestart ==
    /\ kills < MaxKills
    /\ kills' = kills + 1
    /\ kLost' = kLost \cup IdsOfMessages(_current_batch)
    /\ _current_batch' = <<>>
    /\ _current_batch_size' = 0
    /\ _batch_start_time' = now
    /\ db' = disk
    /\ seq_id' = diskSeq
    /\ kMarkId' = 0
    /\ kPc' = "idle"
    /\ UNCHANGED <<now, nextMsg, disk, diskSeq, kFlushed, kEvicted, kMarked,
                   notCrash>>

\* The clock advances.
KTick ==
    /\ now < MaxTimeCrash
    /\ now' = now + 1
    /\ UNCHANGED <<_current_batch, _current_batch_size, _batch_start_time,
                   db, seq_id, nextMsg, crashVars, notCrash>>

CrashNext ==
    \/ KAddMessage \/ KFlush \/ KInsert \/ KCommitInsert \/ KReset
    \/ KCheckSize \/ KCommitEvict \/ KMarkUpdate \/ KCommitMark
    \/ KillAndRestart \/ KTick

(***************************************************************************)
(* MQTTClient (services/mqtt_client.py): connect, disconnect and publish   *)
(* with its retry loop. A call of publish runs to completion; the outcome  *)
(* of each delivery attempt and whether the payload can be serialised are  *)
(* inputs.                                                                 *)
(***************************************************************************)
\* Faulty variant: the wait grows by one second per attempt.
BackoffLinear(attempt) == attempt + 1

\* Line 148: wait_time = 2 ** attempt
BackoffWait(attempt) == 2 ^ attempt

\* The outcomes of the delivery attempts a call may meet, one per attempt.
AttemptOutcomes == [0..(PUBLISH_ATTEMPTS - 1) -> BOOLEAN]

\* Lines 132-155: `for attempt in range(3)` from the given attempt on. The
\* result holds the return value, the number of attempts made and the
\* waits slept.
RECURSIVE PublishLoop(_, _, _)
PublishLoop(outcomes, attempt, waits) ==
    IF attempt >= PUBLISH_ATTEMPTS
    THEN [ret |-> FALSE, tried |-> attempt, waits |-> waits]
    ELSE IF outcomes[attempt]
         THEN [ret |-> TRUE, tried |-> attempt + 1, waits |-> waits]
         ELSE PublishLoop(outcomes, attempt + 1,
                          Append(waits, BackoffWait(attempt)))

\* MQTTClient.publish, lines 121-160, as the return value, the attempts
\* made, the waits slept and the increments of the two counters.
publish(connected, serialisable, outcomes) ==
    IF ~connected
    THEN [ret |-> FALSE, tried |-> 0, waits |-> <<>>,
          success |-> 0, failed |-> 0]
    ELSE IF ~serialisable
         THEN [ret |-> FALSE, tried |-> 0, waits |-> <<>>,
               success |-> 0, failed |-> 1]
         ELSE LET r == PublishLoop(outcomes, 0, <<>>)
              IN  [ret |-> r.ret, tried |-> r.tried, waits |-> r.waits,
                   success |-> IF r.ret THEN 1 ELSE 0,
                   failed |-> IF r.ret THEN 0 ELSE 1]

NoCall == [connected |-> FALSE, serialisable |-> TRUE,
           outcomes |-> [a \in 0..(PUBLISH_ATTEMPTS - 1) |-> FALSE],
           ret |-> FALSE, tried |-> 0, waits |-> <<>>,
           success |-> 0, failed |-> 0]

MqttInit ==
    /\ _connected = FALSE
    /\ _publish_success = 0
    /\ _publish_failed = 0
    /\ mCalls = 0
    /\ mCall = NoCall
    /\ mBefore = <<0, 0>>

\* What a step of the MQTT client leaves alone.
notMqtt == <<bufVars, bufPcVars, spoolVars, spoolHist, pubVars, concVars,
             crashVars, queueVars, pollVars, dtcVars, udsVars, obdVars,
             warnVars, recVars, ingestVars, routeVars, shutdownVars,
             peekVars>>

\* MQTTClient.connect(), lines 66-94: the connection is made or fails.
MqttConnect ==
    /\ \E connected \in BOOLEAN : _connected' = connected
    /\ _connected' # _connected
    /\ UNCHANGED <<_publish_success, _publish_failed, mCalls, mCall, mBefore,
                   notMqtt>>

\* MQTTClient.disconnect(), lines 103-106, and the loss of the connection.
MqttDisconnect ==
    /\ _connected
    /\ _connected' = FALSE
    /\ UNCHANGED <<_publish_success, _publish_failed, mCalls, mCall, mBefore,
                   notMqtt>>

\* A call of publish(topic, payload).
MqttPublish ==
    /\ mCalls < MaxPublishCalls
    /\ mCalls' = mCalls + 1
    /\ \E serialisable \in BOOLEAN, outcomes \in AttemptOutcomes :
         LET r == publish(_connected, serialisable, outcomes)
         IN  /\ _publish_success' = _publish_success + r.success
             /\ _publish_failed' = _publish_failed + r.failed
             /\ mCall' = [connected |-> _connected,
                          serialisable |-> serialisable,
                          outcomes |-> outcomes,
                          ret |-> r.ret, tried |-> r.tried,
                          waits |-> r.waits,
                          success |-> r.success, failed |-> r.failed]
    /\ mBefore' = <<_publish_success, _publish_failed>>
    /\ UNCHANGED <<_connected, notMqtt>>

MqttNext == MqttConnect \/ MqttDisconnect \/ MqttPublish

(***************************************************************************)
(* The publisher worker with the MQTT client's connection state: the       *)
(* worker reaches is_connected() only after it has dequeued a record       *)
(* (main.py:250-252 `if not msg: continue`). Here a publish made while     *)
(* connected succeeds and one made while disconnected fails.               *)
(***************************************************************************)
\* Lines 250-270 with is_connected() returning self._connected.
PubDequeueConnected ==
    /\ PubDequeue
    /\ (pubPc' = "for_batch") <=> _connected

\* Lines 277-283 with publish_telemetry succeeding exactly when connected.
PubPublishConnected ==
    /\ PubPublish
    /\ (pubPc' # "for_batch" \/ pubMessages' # pubMessages) <=> _connected

PubUpNext ==
    \/ Tick \/ MqttConnect \/ MqttDisconnect
    \/ PubDequeueConnected \/ PubForBatch \/ PubPublishConnected

(***************************************************************************)
(* MessageQueue (services/message_queue.py): queue.Queue(maxsize) behind   *)
(* enqueue, dequeue and dequeue_batch, with one producer and one consumer. *)
(* queue.Queue does put and get under its own mutex, so each is one step;  *)
(* the iterations of dequeue_batch interleave with the producer.           *)
(***************************************************************************)
\* Faulty variant: the queue counts as full one item late.
QueueFullOffByOne(q, maxsize) == maxsize > 0 /\ Len(q) > maxsize

\* queue.Queue.full: 0 < maxsize <= qsize
QueueFull(q, maxsize) == maxsize > 0 /\ Len(q) >= maxsize

\* Faulty variant: get takes the newest item.
QueueGetNewest(q) == q[Len(q)]

\* queue.Queue._get: popleft of the deque
QueueGet(q) == Head(q)

QueueInit ==
    /\ _queue = <<>>
    /\ _total_enqueued = 0
    /\ _total_dequeued = 0
    /\ q_total_dropped = 0
    /\ qNext = 1
    /\ qRet = TRUE
    /\ qAccepted = <<>>
    /\ qDelivered = <<>>
    /\ bPc = "idle"
    /\ bMessages = <<>>
    /\ bMaxCount = 0
    /\ bRemaining = 0

\* What a step of the message queue leaves alone.
notQueue == <<bufVars, bufPcVars, spoolVars, spoolHist, pubVars, concVars,
              crashVars, mqttVars, pollVars, dtcVars, udsVars, obdVars,
              warnVars, recVars, ingestVars, routeVars, shutdownVars,
              peekVars>>

\* MessageQueue.enqueue(message, block, timeout=None): put raises Full at
\* once on a full queue when block is False and waits for room when block
\* is True.
Enqueue ==
    /\ qNext <= MaxQueueMsgs
    /\ \E block \in BOOLEAN :
         IF QueueFull(_queue, queue_max_size)
         THEN /\ ~block
              /\ q_total_dropped' = q_total_dropped + 1
              /\ qRet' = FALSE
              /\ UNCHANGED <<_queue, _total_enqueued, qAccepted>>
         ELSE /\ _queue' = Append(_queue, qNext)
              /\ _total_enqueued' = _total_enqueued + 1
              /\ qRet' = TRUE
              /\ qAccepted' = Append(qAccepted, qNext)
              /\ UNCHANGED q_total_dropped
    /\ qNext' = qNext + 1
    /\ UNCHANGED <<_total_dequeued, qDelivered, bPc, bMessages, bMaxCount,
                   bRemaining, notQueue>>

\* MessageQueue.dequeue(block, timeout) with a message in the queue; on an
\* empty queue it returns None after the timeout and changes nothing.
Dequeue ==
    /\ bPc = "idle"
    /\ _queue # <<>>
    /\ qDelivered' = Append(qDelivered, QueueGet(_queue))
    /\ _queue' = Tail(_queue)
    /\ _total_dequeued' = _total_dequeued + 1
    /\ UNCHANGED <<_total_enqueued, q_total_dropped, qNext, qRet, qAccepted,
                   bPc, bMessages, bMaxCount, bRemaining, notQueue>>

\* dequeue_batch(max_count, timeout), lines 118-119; the timeout is counted
\* in iterations of 0.1 s.
DequeueBatchCall ==
    /\ bPc = "idle"
    /\ \E max_count \in 1..MaxBatchCount, timeout \in 1..MaxBatchTimeout :
         /\ bMaxCount' = max_count
         /\ bRemaining' = timeout
    /\ bMessages' = <<>>
    /\ bPc' = "loop"
    /\ UNCHANGED <<_queue, _total_enqueued, _total_dequeued, q_total_dropped,
                   qNext, qRet, qAccepted, qDelivered, notQueue>>

\* dequeue_batch, lines 121-129: one iteration of the while loop.
DequeueBatchIteration ==
    /\ bPc = "loop"
    /\ Len(bMessages) < bMaxCount /\ bRemaining > 0
    /\ IF _queue # <<>>
       THEN /\ bMessages' = Append(bMessages, QueueGet(_queue))
            /\ _queue' = Tail(_queue)
            /\ _total_dequeued' = _total_dequeued + 1
       ELSE UNCHANGED <<bMessages, _queue, _total_dequeued>>
    /\ bRemaining' = bRemaining - 1
    /\ UNCHANGED <<_total_enqueued, q_total_dropped, qNext, qRet, qAccepted,
                   qDelivered, bPc, bMaxCount, notQueue>>

\* dequeue_batch, line 131: return messages
DequeueBatchReturn ==
    /\ bPc = "loop"
    /\ ~(Len(bMessages) < bMaxCount /\ bRemaining > 0)
    /\ qDelivered' = qDelivered \o bMessages
    /\ bMessages' = <<>>
    /\ bPc' = "idle"
    /\ UNCHANGED <<_queue, _total_enqueued, _total_dequeued, q_total_dropped,
                   qNext, qRet, qAccepted, bMaxCount, bRemaining, notQueue>>

QueueNext ==
    \/ Enqueue \/ Dequeue
    \/ DequeueBatchCall \/ DequeueBatchIteration \/ DequeueBatchReturn

(***************************************************************************)
(* OBD2Poller (services/obd2_poller.py): the schedule of PIDConfig         *)
(* entries, the polling loop and the control operations. Times are in      *)
(* milliseconds. The callback is supplied by the caller; the time it takes *)
(* is an input, as is the moment a control operation is called.            *)
(***************************************************************************)
\* The configuration _load_pid_configs reads: pid and interval_ms.
PollConfig == <<[pid |-> 12, interval_ms |-> 110],
                [pid |-> 13, interval_ms |-> 100],
                [pid |-> 5, interval_ms |-> 100]>>

\* The PIDs passed to the control operations: the configured ones and two
\* that are not configured.
PidValues == {PollConfig[i].pid : i \in 1..Len(PollConfig)} \cup {16, 17}

\* The intervals passed to set_interval and add_pid.
IntervalValues == {MIN_INTERVAL_MS - 50, MIN_INTERVAL_MS, MAX_INTERVAL_MS,
                   MAX_INTERVAL_MS + 5000}

\* The time one call of the callback takes.
CallbackDurations == {0, POLL_SLEEP_MS}

\* time.time() when the poller starts: past the longest interval, so that
\* every entry, whose last_poll_time is 0.0, is due.
PollStartTime == MAX_INTERVAL_MS

\* _load_pid_configs, lines 58-71: one PIDConfig per configured PID,
\* enabled, last_poll_time = 0.0.
LoadPidConfigs(config) ==
    [i \in 1..Len(config) |->
        [pid |-> config[i].pid, interval_ms |-> config[i].interval_ms,
         enabled |-> TRUE, last_poll_time |-> 0]]

\* Faulty variant: an entry is due one tick after its interval.
should_poll_late(c, now_ms) ==
    c.enabled /\ (now_ms - c.last_poll_time) >= c.interval_ms + POLL_SLEEP_MS

\* PIDConfig.should_poll(current_time)
should_poll(c, now_ms) ==
    c.enabled /\ (now_ms - c.last_poll_time) >= c.interval_ms

\* The pids of the schedule.
PidsOf(configs) == {configs[i].pid : i \in 1..Len(configs)}

\* `for pid_config in self.pid_configs: if pid_config.pid == pid`: the
\* first entry with the pid, 0 when there is none.
FindPid(configs, pid) ==
    IF pid \in PidsOf(configs)
    THEN CHOOSE i \in 1..Len(configs) :
            /\ configs[i].pid = pid
            /\ \A j \in 1..(i - 1) : configs[j].pid # pid
    ELSE 0

\* The schedule without its i-th entry: self.pid_configs.pop(i)
PopAt(configs, i) ==
    [j \in 1..(Len(configs) - 1) |->
        IF j < i THEN configs[j] ELSE configs[j + 1]]

\* OBD2Poller.enable_pid(pid)
enable_pid(configs, pid) ==
    IF FindPid(configs, pid) = 0
    THEN [ret |-> "False", configs |-> configs]
    ELSE [ret |-> "True",
          configs |-> [configs EXCEPT ![FindPid(configs, pid)].enabled = TRUE]]

\* OBD2Poller.disable_pid(pid)
disable_pid(configs, pid) ==
    IF FindPid(configs, pid) = 0
    THEN [ret |-> "False", configs |-> configs]
    ELSE [ret |-> "True",
          configs |-> [configs EXCEPT
                          ![FindPid(configs, pid)].enabled = FALSE]]

\* Faulty variant: set_interval without the test of the range.
set_interval_unchecked(configs, pid, interval_ms) ==
    IF FindPid(configs, pid) = 0
    THEN [ret |-> "False", configs |-> configs]
    ELSE [ret |-> "True",
          configs |-> [configs EXCEPT
                          ![FindPid(configs, pid)].interval_ms = interval_ms]]

\* OBD2Poller.set_interval(pid, interval_ms)
set_interval(configs, pid, interval_ms) ==
    IF interval_ms < MIN_INTERVAL_MS \/ interval_ms > MAX_INTERVAL_MS
    THEN [ret |-> "False", configs |-> configs]
    ELSE IF FindPid(configs, pid) = 0
         THEN [ret |-> "False", configs |-> configs]
         ELSE [ret |-> "True",
               configs |-> [configs EXCEPT
                    ![FindPid(configs, pid)].interval_ms = interval_ms]]

\* OBD2Poller.add_pid(pid, name, interval_ms)
add_pid(configs, pid, interval_ms) ==
    IF FindPid(configs, pid) # 0
    THEN [ret |-> "None", configs |-> configs]
    ELSE [ret |-> "None",
          configs |-> Append(configs,
                             [pid |-> pid, interval_ms |-> interval_ms,
                              enabled |-> TRUE, last_poll_time |-> 0])]

\* OBD2Poller.remove_pid(pid)
remove_pid(configs, pid) ==
    IF FindPid(configs, pid) = 0
    THEN [ret |-> "False", configs |-> configs]
    ELSE [ret |-> "True", configs |-> PopAt(configs, FindPid(configs, pid))]

NoOp == [name |-> "none", pid |-> 0, interval_ms |-> 0]
NoGap == [pid |-> 0, gap |-> 0, interval_ms |-> 0]

PollInit ==
    /\ pid_configs = LoadPidConfigs(PollConfig)
    /\ pNow = PollStartTime
    /\ pPc = "top"
    /\ current_time = 0
    /\ pIdx = 0
    /\ pOps = 0
    /\ pOp = NoOp
    /\ pRet = "None"
    /\ pLastDispatch = [p \in PidValues |-> 0]
    /\ pGap = NoGap
    /\ pTick = <<>>
    /\ pAtTop = <<>>

\* What a step of the poller leaves alone.
notPoll == <<bufVars, bufPcVars, spoolVars, spoolHist, pubVars, concVars,
             crashVars, mqttVars, queueVars, dtcVars, udsVars, obdVars,
             warnVars, recVars, ingestVars, routeVars, shutdownVars,
             peekVars>>

pollLoopVars == <<pNow, pPc, current_time, pIdx, pLastDispatch, pGap,
                  pTick, pAtTop>>

\* _poll_loop, line 112: current_time = time.time(), and the loop over the
\* schedule starts. The clock of the run is bounded by the given number of
\* sleeps.
PollTop(ticks) ==
    /\ pPc = "top"
    /\ pNow < PollStartTime + ticks * POLL_SLEEP_MS
    /\ current_time' = pNow
    /\ pIdx' = 1
    /\ pPc' = "for"
    /\ pTick' = <<>>
    /\ pAtTop' = pid_configs
    /\ UNCHANGED <<pid_configs, pNow, pOps, pOp, pRet, pLastDispatch, pGap,
                   notPoll>>

\* _poll_loop, lines 115-124: the next entry of the schedule; when it is
\* due the callback is called, which takes its time, and last_poll_time
\* becomes the current_time of this iteration.
PollCheck ==
    /\ pPc = "for"
    /\ pIdx <= Len(pid_configs)
    /\ IF should_poll(pid_configs[pIdx], current_time)
       THEN /\ \E d \in CallbackDurations : pNow' = pNow + d
            /\ pid_configs' = [pid_configs EXCEPT
                                 ![pIdx].last_poll_time = current_time]
            /\ pLastDispatch' = [pLastDispatch EXCEPT
                                   ![pid_configs[pIdx].pid] = pNow]
            /\ pGap' = IF pLastDispatch[pid_configs[pIdx].pid] = 0
                       THEN pGap
                       ELSE [pid |-> pid_configs[pIdx].pid,
                             gap |-> pNow
                                      - pLastDispatch[pid_configs[pIdx].pid],
                             interval_ms |-> pid_configs[pIdx].interval_ms]
            /\ pTick' = Append(pTick, pid_configs[pIdx].pid)
       ELSE UNCHANGED <<pNow, pid_configs, pLastDispatch, pGap, pTick>>
    /\ pIdx' = pIdx + 1
    /\ UNCHANGED <<pPc, current_time, pOps, pOp, pRet, pAtTop, notPoll>>

\* _poll_loop, line 127: time.sleep(0.01) after the last entry.
PollSleep ==
    /\ pPc = "for"
    /\ pIdx > Len(pid_configs)
    /\ pNow' = pNow + POLL_SLEEP_MS
    /\ pPc' = "top"
    /\ UNCHANGED <<pid_configs, current_time, pIdx, pOps, pOp, pRet,
                   pLastDispatch, pGap, pTick, pAtTop, notPoll>>

\* A control operation is called and returns.
Control(name, pid, interval_ms, r) ==
    /\ pOps < MaxControlOps
    /\ pOps' = pOps + 1
    /\ pOp' = [name |-> name, pid |-> pid, interval_ms |-> interval_ms]
    /\ pRet' = r.ret
    /\ pid_configs' = r.configs
    /\ UNCHANGED <<pollLoopVars, notPoll>>

EnablePid ==
    \E pid \in PidValues :
        Control("enable_pid", pid, 0, enable_pid(pid_configs, pid))

DisablePid ==
    \E pid \in PidValues :
        Control("disable_pid", pid, 0, disable_pid(pid_configs, pid))

SetInterval ==
    \E pid \in PidValues, interval_ms \in IntervalValues :
        Control("set_interval", pid, interval_ms,
                set_interval(pid_configs, pid, interval_ms))

AddPid ==
    \E pid \in PidValues, interval_ms \in IntervalValues :
        Control("add_pid", pid, interval_ms,
                add_pid(pid_configs, pid, interval_ms))

RemovePid ==
    \E pid \in PidValues :
        Control("remove_pid", pid, 0, remove_pid(pid_configs, pid))

\* The time by which one time.sleep(0.01) of the run overruns: the thread
\* is not scheduled for longer than two of the longest configured interval.
PauseMs == 2 * PollConfig[1].interval_ms + 3 * POLL_SLEEP_MS

\* _poll_loop, line 127, with the sleep returning late: time.sleep suspends
\* the thread for at least the time given.
PollSleepLate ==
    /\ pPc = "for"
    /\ pIdx > Len(pid_configs)
    /\ pNow + PauseMs < PollStartTime + MaxPauseTicks * POLL_SLEEP_MS
    /\ pNow' = pNow + POLL_SLEEP_MS + PauseMs
    /\ pPc' = "top"
    /\ UNCHANGED <<pid_configs, current_time, pIdx, pOps, pOp, pRet,
                   pLastDispatch, pGap, pTick, pAtTop, notPoll>>

\* The pid that is disabled and enabled in SpecPollerPause.
PausePid == PollConfig[2].pid

PauseEnablePid ==
    Control("enable_pid", PausePid, 0, enable_pid(pid_configs, PausePid))

PauseDisablePid ==
    Control("disable_pid", PausePid, 0, disable_pid(pid_configs, PausePid))

\* The polling loop alone, the schedule as configured.
PollLoopNext == PollTop(MaxPollTicks) \/ PollCheck \/ PollSleep

\* The polling loop with the control operations called at any moment.
PollNext ==
    \/ PollTop(MaxControlTicks) \/ PollCheck \/ PollSleep
    \/ EnablePid \/ DisablePid \/ SetInterval \/ AddPid \/ RemovePid

\* The polling loop with a late sleep and with entries disabled and enabled
\* at any moment.
PollPauseNext ==
    \/ PollTop(MaxPauseTicks) \/ PollCheck \/ PollSleep \/ PollSleepLate
    \/ PauseEnablePid \/ PauseDisablePid

(***************************************************************************)
(* The DTC decoders: UDSDecoder._decode_dtc_code (services/uds_decoder.py) *)
(* and OBD2Decoder._decode_dtc (services/obd2_decoder.py). A string is a   *)
(* sequence of one-character strings.                                      *)
(***************************************************************************)
\* The values of a byte.
ByteValues == 0..255

\* The values of the third byte given to the UDS decoder, which computes
\* fifth_digit from it and does not print it.
ThirdByteValues == {0, 52, 255}

DecimalDigits == <<"0", "1", "2", "3", "4", "5", "6", "7", "8", "9">>

\* f"{n}" for an int n >= 0: its decimal digits.
RECURSIVE FormatInt(_)
FormatInt(n) ==
    IF n < 10 THEN <<DecimalDigits[n + 1]>>
    ELSE FormatInt(n \div 10) \o <<DecimalDigits[(n % 10) + 1]>>

\* DTC_PREFIXES.get(prefix_code, 'U') and prefixes.get(prefix_code, 'P'):
\* prefix_code is 0..3, so the default is never taken.
DTC_PREFIXES == <<"P", "C", "B", "U">>

\* UDSDecoder._decode_dtc_code(dtc_bytes)
_decode_dtc_code(dtc_bytes) ==
    IF Len(dtc_bytes) # 3 THEN <<"I", "N", "V", "A", "L", "I", "D">>
    ELSE LET first_byte == dtc_bytes[1]
             prefix_code == (first_byte \div 64) % 4
             first_digit == (first_byte \div 16) % 4
             second_digit == first_byte % 16
             third_digit == (dtc_bytes[2] \div 16) % 16
             fourth_digit == dtc_bytes[2] % 16
         IN  <<DTC_PREFIXES[prefix_code + 1]>> \o FormatInt(first_digit)
                \o FormatInt(second_digit) \o FormatInt(third_digit)
                \o FormatInt(fourth_digit)

\* OBD2Decoder._decode_dtc(dtc_bytes); <<>> stands for None.
_decode_dtc(dtc_bytes) ==
    IF Len(dtc_bytes) # 2 THEN <<>>
    ELSE LET first_byte == dtc_bytes[1]
             prefix_code == (first_byte \div 64) % 4
             first_digit == (first_byte \div 16) % 4
             second_digit == first_byte % 16
             third_digit == (dtc_bytes[2] \div 16) % 16
             fourth_digit == dtc_bytes[2] % 16
         IN  <<DTC_PREFIXES[prefix_code + 1]>> \o FormatInt(first_digit)
                \o FormatInt(second_digit) \o FormatInt(third_digit)
                \o FormatInt(fourth_digit)

DtcInit ==
    /\ dtcDecoder = "none"
    /\ dtcBytes = <<>>
    /\ dtcCode = <<>>

\* What a step of the DTC decoders leaves alone.
notDtc == <<bufVars, bufPcVars, spoolVars, spoolHist, pubVars, concVars,
            crashVars, mqttVars, queueVars, pollVars, udsVars, obdVars,
            warnVars, recVars, ingestVars, routeVars, shutdownVars, peekVars>>

\* _decode_read_dtc calls _decode_dtc_code on three bytes of the message.
DecodeUdsDtc ==
    /\ dtcDecoder = "none"
    /\ \E a \in ByteValues, b \in ByteValues, c \in ThirdByteValues :
        /\ dtcBytes' = <<a, b, c>>
        /\ dtcCode' = _decode_dtc_code(<<a, b, c>>)
    /\ dtcDecoder' = "uds"
    /\ UNCHANGED notDtc

\* _decode_mode_03 calls _decode_dtc on two bytes of the message.
DecodeObd2Dtc ==
    /\ dtcDecoder = "none"
    /\ \E a \in ByteValues, b \in ByteValues :
        /\ dtcBytes' = <<a, b>>
        /\ dtcCode' = _decode_dtc(<<a, b>>)
    /\ dtcDecoder' = "obd2"
    /\ UNCHANGED notDtc

\* The caller has taken the code; the decoder can be called again.
DtcReturn ==
    /\ dtcDecoder # "none"
    /\ dtcDecoder' = "none"
    /\ dtcBytes' = <<>>
    /\ dtcCode' = <<>>
    /\ UNCHANGED notDtc

DtcNext == DecodeUdsDtc \/ DecodeObd2Dtc \/ DtcReturn

(***************************************************************************)
(* UDSDecoder.decode_message (services/uds_decoder.py). data is a sequence *)
(* of bytes. An Optional value is <<>> for None and <<v>> for v. Names and *)
(* hex() texts are kept as the values they print.                          *)
(***************************************************************************)
\* class UDSService: the values of the enumeration.
UDSService == {16, 17, 39, 40, 62, 131, 132, 133, 134, 135, 34, 35, 36, 42,
               44, 46, 61, 20, 25, 47, 49, 52, 53, 54, 55, 56}

\* _get_service_name: the member's name, told by its value, or
\* UNKNOWN_SERVICE_ followed by the value.
_get_service_name(service_id) ==
    IF service_id \in UDSService
    THEN [known |-> TRUE, value |-> service_id]
    ELSE [known |-> FALSE, value |-> service_id]

\* _get_dtc_severity: severity_bits = status_byte & 0xE0.
_get_dtc_severity(status_byte) ==
    LET severity_bits == (status_byte \div 32) * 32
    IN  IF severity_bits = 128 THEN "critical"
        ELSE IF severity_bits = 64 THEN "high"
        ELSE IF severity_bits = 32 THEN "medium"
        ELSE "low"

\* data[a:b] with 0-based a and b within the data.
Slice(data, a, b) == [i \in 1..(b - a) |-> data[a + i]]

\* _decode_read_dtc_information, lines 199-214: the records from the
\* 0-based offset on.
RECURSIVE DtcList(_, _)
DtcList(data, offset) ==
    IF offset + 3 < Len(data)
    THEN <<[code |-> _decode_dtc_code(Slice(data, offset, offset + 3)),
            status_byte |-> data[offset + 4],
            severity |-> _get_dtc_severity(data[offset + 4])]>>
         \o DtcList(data, offset + 4)
    ELSE <<>>

\* _decode_read_dtc_information(message, data)
_decode_read_dtc_information(message, data) ==
    IF Len(data) < 2 THEN message
    ELSE IF ~message.is_response
    THEN [message EXCEPT !.decoded_data = <<[sub_function |-> data[2]]>>]
    ELSE IF data[2] \in {2, 10, 11, 12, 13, 14}
    THEN [message EXCEPT
            !.dtc_info = <<DtcList(data, IF Len(data) > 2 THEN 3 ELSE 2)>>]
    ELSE message

\* response_data.decode('ascii'): the text when every byte is ASCII.
DecodeAscii(bytes) ==
    IF \A i \in 1..Len(bytes) : bytes[i] < 128 THEN <<bytes>> ELSE <<>>

\* _decode_read_data_by_identifier(message, data)
_decode_read_data_by_identifier(message, data) ==
    IF Len(data) < 3 THEN message
    ELSE LET data_identifier == data[2] * 256 + data[3]
             response_data == Slice(data, 3, Len(data))
         IN  IF message.is_response /\ Len(data) > 3
             THEN [message EXCEPT
                     !.data_identifier = <<data_identifier>>,
                     !.decoded_data =
                        <<[data_identifier |-> data_identifier,
                           response_data |-> response_data,
                           response_length |-> Len(response_data),
                           vin |-> IF data_identifier = 61840
                                   THEN DecodeAscii(response_data)
                                   ELSE <<>>]>>]
             ELSE [message EXCEPT !.data_identifier = <<data_identifier>>]

\* _decode_tester_present(message, data)
_decode_tester_present(message, data) ==
    IF Len(data) < 2 THEN message
    ELSE [message EXCEPT
            !.decoded_data =
                <<[sub_function |-> data[2],
                   suppress_positive_response |-> data[2] >= 128]>>]

\* UDSDecoder.decode_message(data, ecu_address): <<>> for None, else the
\* message. ecu_address is copied to the message and is left out.
decode_message(data) ==
    IF Len(data) < 1 THEN <<>>
    ELSE LET service_id == data[1]
             is_response == service_id >= 64
             actual_service_id ==
                IF is_response THEN service_id - 64 ELSE service_id
             message == [service_id |-> actual_service_id,
                         service_name |-> _get_service_name(actual_service_id),
                         data |-> data,
                         is_response |-> is_response,
                         response_code |-> <<>>,
                         dtc_info |-> <<>>,
                         data_identifier |-> <<>>,
                         decoded_data |-> <<>>]
         IN  IF actual_service_id = 25
             THEN <<_decode_read_dtc_information(message, data)>>
             ELSE IF actual_service_id = 34
             THEN <<_decode_read_data_by_identifier(message, data)>>
             ELSE IF actual_service_id = 62
             THEN <<_decode_tester_present(message, data)>>
             ELSE <<message>>

\* The 4-byte DTC records put in the payloads.
UdsRecords == {<<1, 3, 1, 8>>, <<1, 4, 32, 72>>, <<10, 0, 0, 136>>,
               <<67, 33, 0, 32>>}

\* The bytes that follow the first byte in the short payloads.
UdsTailBytes == {0, 17, 34, 49, 127, 128, 241, 255}

\* The payloads given to the decoder and the validator: empty, every
\* first byte alone and with one or two more bytes, and Read DTC
\* Information responses with zero to two records and a cut record.
UdsPayloads ==
    {<<>>}
    \cup {<<a>> : a \in ByteValues}
    \cup {<<a, b>> : a \in ByteValues, b \in UdsTailBytes}
    \cup {<<a, b, c>> : a \in ByteValues, b \in {0, 34, 241},
                        c \in {17, 49, 144, 255}}
    \cup {<<34, 241, 144, 49>>, <<98, 241, 144, 49>>, <<98, 241, 144, 200>>,
          <<46, 241, 144, 49>>, <<20, 255, 255, 255>>}
    \cup {<<89, s, 255>> \o r : s \in {1, 2, 10}, r \in UdsRecords}
    \cup {<<89, s, 255>> \o r \o q \o t :
            s \in {1, 2}, r \in UdsRecords, q \in UdsRecords,
            t \in {<<>>, <<1>>, <<1, 3, 1>>}}

UdsInit ==
    /\ udsOp = "none"
    /\ udsData = <<>>
    /\ udsOut = <<>>

\* What a step of the UDS decoder and validator leaves alone.
notUds == <<bufVars, bufPcVars, spoolVars, spoolHist, pubVars, concVars,
            crashVars, mqttVars, queueVars, pollVars, dtcVars, obdVars,
            warnVars, recVars, ingestVars, routeVars, shutdownVars, peekVars>>

\* decode_message is called on a payload and returns.
UdsDecode ==
    /\ udsOp = "none"
    /\ \E data \in UdsPayloads :
        /\ udsData' = data
        /\ udsOut' = decode_message(data)
    /\ udsOp' = "decode"
    /\ UNCHANGED notUds

\* The caller has taken the result; the next call can be made.
UdsReturn ==
    /\ udsOp # "none"
    /\ udsOp' = "none"
    /\ udsData' = <<>>
    /\ udsOut' = <<>>
    /\ UNCHANGED notUds

(***************************************************************************)
(* UDSValidator.validate_message (services/uds_validator.py). A            *)
(* ValidationResult is [is_valid, error_code, warnings], error_code being  *)
(* <<>> for None; error_message repeats the code in words and is left out. *)
(* A warning is its fixed text and the value printed after it.             *)
(***************************************************************************)
VALID_SERVICE_IDS == {16, 17, 20, 25, 34, 35, 36, 39, 40, 42,
                      44, 46, 47, 49, 52, 53, 54, 55, 56, 61,
                      62, 131, 132, 133, 134, 135}

MIN_MESSAGE_LENGTHS ==
    (16 :> 2) @@ (17 :> 2) @@ (20 :> 4) @@ (25 :> 2) @@ (34 :> 3)
    @@ (35 :> 4) @@ (39 :> 2) @@ (46 :> 4) @@ (62 :> 2) @@ (49 :> 4)

NEGATIVE_RESPONSE_CODES ==
    (16 :> "General Reject")
    @@ (17 :> "Service Not Supported")
    @@ (18 :> "Sub-Function Not Supported")
    @@ (19 :> "Incorrect Message Length Or Invalid Format")
    @@ (20 :> "Response Too Long")
    @@ (33 :> "Busy Repeat Request")
    @@ (34 :> "Conditions Not Correct")
    @@ (36 :> "Request Sequence Error")
    @@ (37 :> "No Response From Sub-Net Component")
    @@ (38 :> "Failure Prevents Execution Of Requested Action")
    @@ (49 :> "Request Out Of Range")
    @@ (51 :> "Security Access Denied")
    @@ (53 :> "Invalid Key")
    @@ (54 :> "Exceed Number Of Attempts")
    @@ (55 :> "Required Time Delay Not Expired")
    @@ (112 :> "Upload Download Not Accepted")
    @@ (113 :> "Transfer Data Suspended")
    @@ (114 :> "General Programming Failure")
    @@ (115 :> "Wrong Block Sequence Counter")
    @@ (120 :> "Request Correctly Received - Response Pending")
    @@ (126 :> "Sub-Function Not Supported In Active Session")
    @@ (127 :> "Service Not Supported In Active Session")

\* ValidationResult(is_valid=False, error_code=code, ...)
Invalid(code) == [is_valid |-> FALSE, error_code |-> <<code>>,
                  warnings |-> <<>>]

\* ValidationResult(is_valid=True, warnings=warnings)
Valid(warnings) == [is_valid |-> TRUE, error_code |-> <<>>,
                    warnings |-> warnings]

\* NEGATIVE_RESPONSE_CODES.get(response_code,
\*                             f"Unknown response code: {hex(response_code)}")
ResponseDesc(response_code) ==
    IF response_code \in DOMAIN NEGATIVE_RESPONSE_CODES
    THEN [text |-> NEGATIVE_RESPONSE_CODES[response_code], value |-> <<>>]
    ELSE [text |-> "Unknown response code: ", value |-> <<response_code>>]

\* Faulty variant: the response code is read from the byte of the
\* requested service.
_validate_negative_response_byte1(data) ==
    IF Len(data) < 3 THEN Invalid("INVALID_NEGATIVE_RESPONSE")
    ELSE Valid(<<[text |-> "Negative response: ",
                  value |-> <<ResponseDesc(data[2])>>]>>)

\* UDSValidator._validate_negative_response(data)
_validate_negative_response(data) ==
    IF Len(data) < 3 THEN Invalid("INVALID_NEGATIVE_RESPONSE")
    ELSE Valid(<<[text |-> "Negative response: ",
                  value |-> <<ResponseDesc(data[3])>>]>>)

\* UDSValidator._validate_service_specific(service_id, data, is_response)
_validate_service_specific(service_id, data, is_response) ==
    IF service_id = 25
    THEN IF Len(data) < 2 THEN Invalid("INVALID_DTC_REQUEST")
         ELSE IF data[2] \notin {1, 2, 3, 4, 6, 10, 11, 12, 13, 14}
         THEN Valid(<<[text |-> "Unknown DTC sub-function: ",
                       value |-> <<data[2]>>]>>)
         ELSE Valid(<<>>)
    ELSE IF service_id = 34
    THEN IF Len(data) < 3 THEN Invalid("INVALID_READ_DATA")
         ELSE IF ~is_response /\ Len(data) # 3
         THEN Valid(<<[text |-> "Unexpected message length for Read Data By Identifier request",
                       value |-> <<>>]>>)
         ELSE Valid(<<>>)
    ELSE IF service_id = 62
    THEN IF Len(data) < 2 THEN Invalid("INVALID_TESTER_PRESENT")
         ELSE IF data[2] % 128 # 0
         THEN Valid(<<[text |-> "Non-standard Tester Present sub-function: ",
                       value |-> <<data[2] % 128>>]>>)
         ELSE Valid(<<>>)
    ELSE IF service_id = 46
    THEN IF Len(data) < 4 THEN Invalid("INVALID_WRITE_DATA")
         ELSE Valid(<<>>)
    ELSE Valid(<<>>)

\* UDSValidator.validate_message(data, ecu_address); _validate_checksum
\* returns None, so no warning is added for it.
validate_message(data) ==
    IF Len(data) = 0 THEN Invalid("EMPTY_MESSAGE")
    ELSE LET service_id == data[1]
             is_response == service_id >= 64
             actual_service_id ==
                IF is_response THEN service_id - 64 ELSE service_id
             min_length ==
                IF actual_service_id \in DOMAIN MIN_MESSAGE_LENGTHS
                THEN MIN_MESSAGE_LENGTHS[actual_service_id] ELSE 1
         IN  IF service_id = 127 THEN _validate_negative_response(data)
             ELSE IF actual_service_id \notin VALID_SERVICE_IDS
             THEN Invalid("INVALID_SERVICE_ID")
             ELSE IF Len(data) < min_length THEN Invalid("INVALID_LENGTH")
             ELSE _validate_service_specific(actual_service_id, data,
                                             is_response)

\* validate_message is called on a payload and returns.
UdsValidate ==
    /\ udsOp = "none"
    /\ \E data \in UdsPayloads :
        /\ udsData' = data
        /\ udsOut' = validate_message(data)
    /\ udsOp' = "validate"
    /\ UNCHANGED notUds

UdsNext == UdsDecode \/ UdsValidate \/ UdsReturn

(***************************************************************************)
(* OBD2Decoder.decode_message (services/obd2_decoder.py). A value is kept  *)
(* in hundredths, the parameter's value being rounded to two decimals; the *)
(* formulas are fractions num / den.                                       *)
(***************************************************************************)
\* class OBD2Mode: the values of the enumeration.
OBD2Mode == 1..10

\* PID_DEFINITIONS: name, unit and bytes of each PID.
PID_DEFINITIONS ==
    (12 :> [name |-> "engine_rpm", unit |-> "rpm", bytes |-> 2])
    @@ (13 :> [name |-> "vehicle_speed", unit |-> "km/h", bytes |-> 1])
    @@ (5 :> [name |-> "coolant_temp", unit |-> "celsius", bytes |-> 1])
    @@ (17 :> [name |-> "throttle_position", unit |-> "percent",
               bytes |-> 1])
    @@ (47 :> [name |-> "fuel_level", unit |-> "percent", bytes |-> 1])
    @@ (15 :> [name |-> "intake_air_temp", unit |-> "celsius", bytes |-> 1])
    @@ (16 :> [name |-> "maf_flow_rate", unit |-> "g/s", bytes |-> 2])
    @@ (4 :> [name |-> "engine_load", unit |-> "percent", bytes |-> 1])
    @@ (14 :> [name |-> "timing_advance", unit |-> "degrees", bytes |-> 1])
    @@ (66 :> [name |-> "control_module_voltage", unit |-> "volts",
               bytes |-> 2])

\* PID_DEFINITIONS[pid]["formula"](data), as the fraction num / den.
Formula(pid, data) ==
    CASE pid = 12 -> [num |-> data[1] * 256 + data[2], den |-> 4]
      [] pid = 13 -> [num |-> data[1], den |-> 1]
      [] pid = 5 -> [num |-> data[1] - 40, den |-> 1]
      [] pid = 17 -> [num |-> data[1] * 100, den |-> 255]
      [] pid = 47 -> [num |-> data[1] * 100, den |-> 255]
      [] pid = 15 -> [num |-> data[1] - 40, den |-> 1]
      [] pid = 16 -> [num |-> data[1] * 256 + data[2], den |-> 100]
      [] pid = 4 -> [num |-> data[1] * 100, den |-> 255]
      [] pid = 14 -> [num |-> data[1] - 128, den |-> 2]
      [] pid = 66 -> [num |-> data[1] * 256 + data[2], den |-> 1000]

\* floor(a / b) for b > 0 and any a.
FloorDiv(a, b) == IF a >= 0 THEN a \div b ELSE -((-a + b - 1) \div b)

\* Faulty variant: the value is cut after two decimals.
Round2Truncate(f, tie) == FloorDiv(100 * f.num, f.den)

\* round(value, 2), in hundredths: the nearest; when the value lies half
\* way between two hundredths the float that holds it is a little below
\* or above, and tie tells which.
Round2(f, tie) ==
    LET low == FloorDiv(100 * f.num, f.den)
        rest == 100 * f.num - low * f.den
    IN  IF 2 * rest < f.den THEN low
        ELSE IF 2 * rest > f.den THEN low + 1
        ELSE IF tie = "up" THEN low + 1 ELSE low

\* _get_mode_name: the member's name, told by its value, or UNKNOWN_MODE_
\* followed by the value.
_get_mode_name(mode) == [known |-> mode \in OBD2Mode, value |-> mode]

\* OBD2Decoder._decode_mode_01(message, data, is_response)
_decode_mode_01(message, data, is_response, tie) ==
    IF Len(data) < 2 THEN message
    ELSE LET pid == data[2]
             withPid == [message EXCEPT !.pid = <<pid>>]
         IN  IF ~is_response THEN withPid
             ELSE IF Len(data) < 3 THEN withPid
             ELSE IF pid \notin DOMAIN PID_DEFINITIONS THEN withPid
             ELSE IF Len(data) - 2 < PID_DEFINITIONS[pid].bytes THEN withPid
             ELSE LET data_bytes ==
                        Slice(data, 2, 2 + PID_DEFINITIONS[pid].bytes)
                  IN  [withPid EXCEPT !.parameters =
                        <<[name |-> PID_DEFINITIONS[pid].name,
                           pid |-> pid,
                           value |-> Round2(Formula(pid, data_bytes), tie),
                           unit |-> PID_DEFINITIONS[pid].unit,
                           raw_value |-> data_bytes]>>]

\* _decode_mode_03, lines 279-284: the codes from the 0-based offset on,
\* num_dtcs at most, the empty code P0000 skipped.
RECURSIVE Mode03Dtcs(_, _, _)
Mode03Dtcs(data, offset, room) ==
    IF offset + 1 < Len(data) /\ room > 0
    THEN LET dtc_code == _decode_dtc(Slice(data, offset, offset + 2))
         IN  IF dtc_code # <<"P", "0", "0", "0", "0">>
             THEN <<dtc_code>> \o Mode03Dtcs(data, offset + 2, room - 1)
             ELSE Mode03Dtcs(data, offset + 2, room)
    ELSE <<>>

\* OBD2Decoder._decode_mode_03(message, data, is_response)
_decode_mode_03(message, data, is_response) ==
    IF ~is_response \/ Len(data) < 2 THEN message
    ELSE [message EXCEPT !.dtcs = Mode03Dtcs(data, 2, data[2])]

\* OBD2Decoder.decode_message(data): <<>> for None, else the message.
obd2_decode_message(data, tie) ==
    IF Len(data) < 2 THEN <<>>
    ELSE LET mode == data[1]
             is_response == mode >= 64
             actual_mode == IF is_response THEN mode - 64 ELSE mode
             message == [mode |-> actual_mode,
                         mode_name |-> _get_mode_name(actual_mode),
                         pid |-> <<>>,
                         parameters |-> <<>>,
                         dtcs |-> <<>>,
                         is_response |-> is_response]
         IN  IF actual_mode = 1
             THEN <<_decode_mode_01(message, data, is_response, tie)>>
             ELSE IF actual_mode = 3
             THEN <<_decode_mode_03(message, data, is_response)>>
             ELSE <<message>>

\* The first bytes of the payloads: requests and responses of modes 01 and
\* 03, a mode without decoding and an unknown one.
ObdModeBytes == {1, 65, 3, 67, 9, 255}

\* The second bytes: the PIDs of the table and two absent ones; for mode
\* 03 the number of codes.
ObdPidBytes == DOMAIN PID_DEFINITIONS \cup {0, 2}

\* The bytes of the values.
ObdDataBytes == {0, 3, 16, 39, 65, 130, 255}

ObdPayloads ==
    {<<>>}
    \cup {<<m>> : m \in ObdModeBytes}
    \cup {<<m, p>> : m \in ObdModeBytes, p \in ObdPidBytes}
    \cup {<<m, p, a>> : m \in ObdModeBytes, p \in ObdPidBytes,
                        a \in ObdDataBytes}
    \cup {<<m, p, a, b>> : m \in ObdModeBytes, p \in ObdPidBytes,
                           a \in ObdDataBytes, b \in ObdDataBytes}
    \cup {<<m, p, a, b, c>> : m \in {65, 67}, p \in ObdPidBytes,
                              a \in ObdDataBytes, b \in ObdDataBytes,
                              c \in {0, 255}}

ObdInit ==
    /\ obdOp = "none"
    /\ obdData = <<>>
    /\ obdOut = <<>>

\* What a step of the OBD-II decoder leaves alone.
notObd == <<bufVars, bufPcVars, spoolVars, spoolHist, pubVars, concVars,
            crashVars, mqttVars, queueVars, pollVars, dtcVars, udsVars,
            warnVars, recVars, ingestVars, routeVars, shutdownVars, peekVars>>

\* decode_message is called on a payload and returns.
ObdDecode ==
    /\ obdOp = "none"
    /\ \E data \in ObdPayloads, tie \in {"down", "up"} :
        /\ obdData' = data
        /\ obdOut' = obd2_decode_message(data, tie)
    /\ obdOp' = "decode"
    /\ UNCHANGED notObd

\* The caller has taken the result; the next call can be made.
ObdReturn ==
    /\ obdOp # "none"
    /\ obdOp' = "none"
    /\ obdData' = <<>>
    /\ obdOut' = <<>>
    /\ UNCHANGED notObd

ObdNext == ObdDecode \/ ObdReturn

(***************************************************************************)
(* Utilisation warnings about the CAN ingest buffer: read_frame of the CAN *)
(* interface (services/can_interface.py) and the monitor thread            *)
(* (services/buffer_monitor.py), which main.py starts with interval 5.0.   *)
(* Nothing in the gateway drains the interface's buffer. Times are in s.   *)
(***************************************************************************)
\* CircularBuffer.utilization() >= warning_threshold * 100
AtWarningLevel(len) == len * 100 >= WARNING_THRESHOLD_PERCENT * CAN_BUFFER_SIZE

NoWarning == [by |-> "none", at |-> 0]

\* logger.warning(...) about the utilisation, by the given component.
LogWarning(by) ==
    /\ wLast' = [by |-> by, at |-> wNow]
    /\ wPrev' = wLast

WarnInit ==
    /\ wNow = WARNING_THROTTLE_S
    /\ wLen = 0
    /\ _last_warning_time = 0
    /\ monWake = WARNING_THROTTLE_S
    /\ wLast = NoWarning
    /\ wPrev = NoWarning

\* What a step of the warnings leaves alone.
notWarn == <<bufVars, bufPcVars, spoolVars, spoolHist, pubVars, concVars,
             crashVars, mqttVars, queueVars, pollVars, dtcVars, udsVars,
             obdVars, recVars, ingestVars, routeVars, shutdownVars, peekVars>>

\* read_frame, lines 181-184: the frame is added to the buffer, a deque of
\* maxlen buffer_size, then _check_buffer_utilization.
WarnReadFrame ==
    /\ wLen' = IF wLen >= CAN_BUFFER_SIZE THEN wLen ELSE wLen + 1
    /\ IF /\ AtWarningLevel(wLen')
          /\ wNow - _last_warning_time >= WARNING_THROTTLE_S
       THEN /\ LogWarning("can_interface")
            /\ _last_warning_time' = wNow
       ELSE UNCHANGED <<wLast, wPrev, _last_warning_time>>
    /\ UNCHANGED <<wNow, monWake, notWarn>>

\* _monitor_loop: _collect_metrics, whose _check_warnings logs the
\* utilisation warning, then time.sleep(interval).
MonitorCollect ==
    /\ wNow >= monWake
    /\ IF AtWarningLevel(wLen)
       THEN LogWarning("buffer_monitor")
       ELSE UNCHANGED <<wLast, wPrev>>
    /\ monWake' = wNow + MONITOR_INTERVAL_S
    /\ UNCHANGED <<wNow, wLen, _last_warning_time, notWarn>>

\* A second passes.
WarnTick ==
    /\ wNow < WARNING_THROTTLE_S + MaxWarnTime
    /\ wNow' = wNow + 1
    /\ UNCHANGED <<wLen, _last_warning_time, monWake, wLast, wPrev, notWarn>>

WarnNext == WarnReadFrame \/ MonitorCollect \/ WarnTick

(***************************************************************************)
(* The gateway across a broker outage. EdgeGateway.start (main.py) calls   *)
(* mqtt_client.connect() once, then starts the workers; the publisher      *)
(* worker reads is_connected(). _connected is written by connect() and     *)
(* disconnect() only: the loss of the connection does not change it.       *)
(***************************************************************************)
RecInit ==
    /\ brokerUp = TRUE
    /\ gwStarted = FALSE

\* What the gateway's start and the broker leave alone, the MQTT client's
\* variables apart.
notRec == <<bufVars, bufPcVars, spoolVars, spoolHist, pubVars, concVars,
            crashVars, queueVars, pollVars, dtcVars, udsVars, obdVars,
            warnVars, ingestVars, routeVars, shutdownVars, peekVars>>

mqttCounters == <<_publish_success, _publish_failed, mCalls, mCall, mBefore>>

\* start, lines 138-148: connect() succeeds when the broker can be reached
\* and fails otherwise, a warning is logged, and the workers are started.
GwStart ==
    /\ ~gwStarted
    /\ gwStarted' = TRUE
    /\ _connected' = brokerUp
    /\ UNCHANGED <<brokerUp, mqttCounters, notRec>>

\* The broker goes out of reach.
BrokerFail ==
    /\ brokerUp
    /\ brokerUp' = FALSE
    /\ UNCHANGED <<gwStarted, mqttVars, notRec>>

\* The broker is within reach again.
BrokerRestore ==
    /\ ~brokerUp
    /\ brokerUp' = TRUE
    /\ UNCHANGED <<gwStarted, mqttVars, notRec>>

\* The publisher worker, lines 250-270, once started.
RecDequeue == gwStarted /\ PubDequeueConnected

\* The publisher worker, lines 272-274, once started.
RecForBatch == gwStarted /\ PubForBatch

\* The publisher worker, lines 277-283, once started: publish_telemetry
\* succeeds exactly when the client holds a connection and the broker is
\* within reach.
RecPublish ==
    /\ gwStarted
    /\ PubPublish
    /\ (pubPc' # "for_batch" \/ pubMessages' # pubMessages)
        <=> (_connected /\ brokerUp)

RecNext ==
    \/ GwStart \/ BrokerFail \/ BrokerRestore \/ Tick
    \/ RecDequeue \/ RecForBatch \/ RecPublish

(***************************************************************************)
(* The hand-off of frames from the CAN reader worker to the decoder worker *)
(* (main.py:176-240). read_frame puts each frame into the interface's      *)
(* CircularBuffer, which nothing in the gateway drains                     *)
(* (get_buffered_frames has no caller), and the reader worker hands the    *)
(* frame to can_queue without blocking; the decoder worker takes frames    *)
(* from can_queue.                                                         *)
(***************************************************************************)
IngestInit ==
    /\ canBuffer = <<>>
    /\ canBufferDropped = 0
    /\ canCounted = {}
    /\ can_queue = <<>>
    /\ canQueueDropped = 0
    /\ canRefused = {}
    /\ decoderGot = <<>>
    /\ canNext = 1

\* What a step of the hand-off leaves alone.
notIngest == <<bufVars, bufPcVars, spoolVars, spoolHist, pubVars, concVars,
               crashVars, mqttVars, queueVars, pollVars, dtcVars, udsVars,
               obdVars, warnVars, recVars, routeVars, shutdownVars, peekVars>>

\* One iteration of _can_reader_worker with a frame on the bus: read_frame
\* adds the frame to the interface's buffer (CircularBuffer.add counts a
\* drop when the deque is full and the deque discards its oldest frame),
\* then can_queue.enqueue(msg, block=False) puts it into the queue or, on
\* queue.Full, counts a drop and returns False.
CanReaderStep ==
    /\ canNext <= MaxCanFrames
    /\ canBufferDropped' = IF Len(canBuffer) >= CAN_BUFFER_SIZE
                           THEN canBufferDropped + 1 ELSE canBufferDropped
    /\ canCounted' = IF Len(canBuffer) >= CAN_BUFFER_SIZE
                     THEN canCounted \cup {Head(canBuffer)} ELSE canCounted
    /\ canBuffer' = DequeAppend(canBuffer, canNext, CAN_BUFFER_SIZE)
    /\ IF QueueFull(can_queue, CAN_QUEUE_SIZE)
       THEN /\ canQueueDropped' = canQueueDropped + 1
            /\ canRefused' = canRefused \cup {canNext}
            /\ UNCHANGED can_queue
       ELSE /\ can_queue' = Append(can_queue, canNext)
            /\ UNCHANGED <<canQueueDropped, canRefused>>
    /\ canNext' = canNext + 1
    /\ UNCHANGED <<decoderGot, notIngest>>

\* One iteration of _decoder_worker with a frame in the queue:
\* can_queue.dequeue(timeout=0.1) returns the oldest frame.
CanDecoderStep ==
    /\ can_queue # <<>>
    /\ decoderGot' = Append(decoderGot, QueueGet(can_queue))
    /\ can_queue' = Tail(can_queue)
    /\ UNCHANGED <<canBuffer, canBufferDropped, canCounted, canQueueDropped,
                   canRefused, canNext, notIngest>>

IngestNext == CanReaderStep \/ CanDecoderStep

(***************************************************************************)
(* EdgeGateway._decoder_worker (main.py:199-240): one frame of can_queue   *)
(* per iteration is given to the UDS decoder and to the OBD-II decoder,    *)
(* and what they return is handed to decoded_queue. The frame's payload    *)
(* holds hex(arbitration_id) and data.hex(); int(..., 16) and              *)
(* bytes.fromhex give back the number and the bytes they were made from.   *)
(***************************************************************************)
\* The arbitration ids of the frames: the bounds of the response range and
\* their neighbours, and a request id.
RouteCanIds == {2016, 2023, 2024, 2031, 2032}

\* The data of the frames: none; a Tester Present request; a mode 01
\* response with the engine speed; a mode 03 response with one code and
\* one with none; a Read DTC Information response; a single byte; a mode
\* 01 request.
RouteData == {<<>>, <<62, 0>>, <<65, 12, 26, 248>>, <<67, 1, 1, 3>>,
              <<67, 0>>, <<89, 2, 255, 1, 3, 1, 8>>, <<65>>, <<1, 12>>}

\* The timestamps of the frames.
RouteTimestamps == {1, 2}

\* Message(message_type, payload, timestamp, source); the payload is the
\* decoded message, to_dict renaming none of the fields a claim reads.
RouteMessage(message_type, payload, timestamp, source) ==
    [message_type |-> message_type, payload |-> payload,
     timestamp |-> timestamp, source |-> source]

\* Lines 213-224: the uds record of a frame, when there is one.
RouteUds(frame) ==
    IF frame.can_id >= 2024 /\ frame.can_id <= 2031
    THEN LET uds_msg == decode_message(frame.data)
         IN  IF uds_msg # <<>>
             THEN <<RouteMessage("uds", uds_msg[1], frame.timestamp,
                                 "uds_decoder")>>
             ELSE <<>>
    ELSE <<>>

\* Lines 226-236: the obd2 record of a frame, when there is one:
\* if obd2_msg and obd2_msg.parameters
RouteObd2(frame, tie) ==
    IF frame.can_id >= 2024 /\ frame.can_id <= 2031
    THEN LET obd2_msg == obd2_decode_message(frame.data, tie)
         IN  IF obd2_msg # <<>> /\ obd2_msg[1].parameters # <<>>
             THEN <<RouteMessage("obd2", obd2_msg[1], frame.timestamp,
                                 "obd2_decoder")>>
             ELSE <<>>
    ELSE <<>>

\* enqueue(message, block=False) on the records in turn: the queue after
\* them, a record that finds the queue full being dropped.
RECURSIVE PutAllNowait(_, _)
PutAllNowait(q, records) ==
    IF records = <<>> THEN q
    ELSE PutAllNowait(IF QueueFull(q, DECODED_QUEUE_SIZE) THEN q
                      ELSE Append(q, Head(records)),
                      Tail(records))

RouteInit ==
    /\ decFrame = <<>>
    /\ decHanded = <<>>
    /\ decoded_queue = <<>>
    /\ decodedDropped = 0
    /\ decCount = 0

\* What a step of the decoder worker leaves alone.
notRoute == <<bufVars, bufPcVars, spoolVars, spoolHist, pubVars, concVars,
              crashVars, mqttVars, queueVars, pollVars, dtcVars, udsVars,
              obdVars, warnVars, recVars, ingestVars, shutdownVars, peekVars>>

\* One iteration of the worker with a frame in can_queue.
DecoderStep ==
    /\ decCount < MaxDecoderFrames
    /\ \E can_id \in RouteCanIds, data \in RouteData,
          timestamp \in RouteTimestamps, tie \in {"down", "up"} :
         LET frame == [can_id |-> can_id, data |-> data,
                       timestamp |-> timestamp]
             records == RouteUds(frame) \o RouteObd2(frame, tie)
             after == PutAllNowait(decoded_queue, records)
         IN  /\ decFrame' = <<frame>>
             /\ decHanded' = records
             /\ decoded_queue' = after
             /\ decodedDropped' = decodedDropped
                    + (Len(decoded_queue) + Len(records) - Len(after))
    /\ decCount' = decCount + 1
    /\ UNCHANGED notRoute

\* The publisher worker takes the oldest record: decoded_queue.dequeue.
DecodedDequeue ==
    /\ decoded_queue # <<>>
    /\ decoded_queue' = Tail(decoded_queue)
    /\ UNCHANGED <<decFrame, decHanded, decodedDropped, decCount, notRoute>>

RouteNext == DecoderStep \/ DecodedDequeue

(***************************************************************************)
(* EdgeGateway.stop() and the loops it ends (main.py:176-332). The three   *)
(* worker threads test self.running at the top of each iteration; the      *)
(* poller, the buffer monitor and the heartbeat test the _running flag of  *)
(* their own object. stop() clears the flags, flushes and closes the       *)
(* spool, and joins the workers with a timeout. An iteration of a worker   *)
(* is one step; the publishing of the pending batches, which touches       *)
(* neither queue nor the batch in memory, is left to PubForBatch and       *)
(* PubPublish. Every frame is one the decoders yield a record for;         *)
(* sdFailed holds the frames lost to an exception or to a full queue.      *)
(***************************************************************************)
Workers == {"reader", "decoder", "publisher"}
Services == {"poller", "monitor", "heartbeat"}

ShutdownInit ==
    /\ sdRunning = TRUE
    /\ sdPc = [t \in Workers \cup Services \cup {"main"} |->
                 IF t \in Workers THEN "while"
                 ELSE IF t \in Services THEN "loop" ELSE "run"]
    /\ sdFlag = [t \in Services |-> TRUE]
    /\ sdBus = TRUE
    /\ sdCanQ = <<>>
    /\ sdDecQ = <<>>
    /\ sdBatch = <<>>
    /\ sdStored = {}
    /\ sdConn = TRUE
    /\ sdNext = 1
    /\ sdReadBefore = {}
    /\ sdFailed = {}
    /\ sdCall = 0

\* What a step of this component leaves alone.
notShutdown == <<bufVars, bufPcVars, spoolVars, spoolHist, pubVars, concVars,
                 crashVars, mqttVars, queueVars, pollVars, dtcVars, udsVars,
                 obdVars, warnVars, recVars, ingestVars, routeVars, peekVars>>

sdSpool == <<sdBatch, sdStored, sdConn>>
sdStop == <<sdRunning, sdFlag, sdBus, sdConn, sdCall>>

\* Faulty variant: an exception ends the worker.
AfterExceptionExit == "exited"

\* `except Exception as e: logger.error(...)` inside `while self.running`:
\* the worker goes on with the test of the flag.
AfterException == "while"

\* put_nowait on a queue of the given capacity: a full queue refuses.
PutNowait(q, x, maxsize) == IF QueueFull(q, maxsize) THEN q ELSE Append(q, x)

\* `while self.running:` of a worker
WorkerTest(w) ==
    /\ sdPc[w] = "while"
    /\ sdPc' = [sdPc EXCEPT ![w] = IF sdRunning THEN "body" ELSE "exited"]
    /\ UNCHANGED <<sdRunning, sdFlag, sdBus, sdCanQ, sdDecQ, sdSpool, sdNext,
                   sdReadBefore, sdFailed, sdCall, notShutdown>>

\* _can_reader_worker, lines 182-191: read_frame returns a frame, which
\* goes to can_queue, or None after the timeout or on a disconnected
\* interface.
ReaderBody ==
    /\ sdPc["reader"] = "body"
    /\ \/ /\ sdBus /\ sdNext <= MaxShutdownFrames
          /\ sdCanQ' = PutNowait(sdCanQ, sdNext, CAN_QUEUE_SIZE)
          /\ sdNext' = sdNext + 1
          /\ sdReadBefore' = IF sdRunning THEN sdReadBefore \cup {sdNext}
                                          ELSE sdReadBefore
          /\ sdFailed' = IF QueueFull(sdCanQ, CAN_QUEUE_SIZE)
                         THEN sdFailed \cup {sdNext} ELSE sdFailed
       \/ UNCHANGED <<sdCanQ, sdNext, sdReadBefore, sdFailed>>
    /\ sdPc' = [sdPc EXCEPT !["reader"] = "while"]
    /\ UNCHANGED <<sdStop, sdDecQ, sdBatch, sdStored, notShutdown>>

\* _can_reader_worker, lines 193-195: the iteration raises and the frame
\* is lost.
ReaderFails ==
    /\ sdPc["reader"] = "body"
    /\ sdBus /\ sdNext <= MaxShutdownFrames
    /\ sdNext' = sdNext + 1
    /\ sdFailed' = sdFailed \cup {sdNext}
    /\ sdPc' = [sdPc EXCEPT !["reader"] = AfterException]
    /\ UNCHANGED <<sdStop, sdCanQ, sdDecQ, sdBatch, sdStored, sdReadBefore,
                   notShutdown>>

\* _decoder_worker, lines 205-236: a frame of can_queue is decoded and the
\* record goes to decoded_queue, or dequeue returns None after the timeout.
DecoderBody ==
    /\ sdPc["decoder"] = "body"
    /\ IF sdCanQ # <<>>
       THEN /\ sdDecQ' = PutNowait(sdDecQ, QueueGet(sdCanQ),
                                   DECODED_QUEUE_SIZE)
            /\ sdCanQ' = Tail(sdCanQ)
            /\ sdFailed' = IF QueueFull(sdDecQ, DECODED_QUEUE_SIZE)
                           THEN sdFailed \cup {QueueGet(sdCanQ)}
                           ELSE sdFailed
       ELSE UNCHANGED <<sdCanQ, sdDecQ, sdFailed>>
    /\ sdPc' = [sdPc EXCEPT !["decoder"] = "while"]
    /\ UNCHANGED <<sdStop, sdBatch, sdStored, sdNext, sdReadBefore,
                   notShutdown>>

\* _decoder_worker, lines 238-239: decoding the frame raises.
DecoderFails ==
    /\ sdPc["decoder"] = "body"
    /\ sdCanQ # <<>>
    /\ sdCanQ' = Tail(sdCanQ)
    /\ sdFailed' = sdFailed \cup {QueueGet(sdCanQ)}
    /\ sdPc' = [sdPc EXCEPT !["decoder"] = AfterException]
    /\ UNCHANGED <<sdStop, sdDecQ, sdBatch, sdStored, sdNext, sdReadBefore,
                   notShutdown>>

\* _publisher_worker, lines 250-265: a record of decoded_queue goes to
\* add_message, which appends it and, when the batch is large or old
\* enough, calls _store_batch; _store_batch raises on a closed connection
\* and leaves the batch as it is.
PublisherBody ==
    /\ sdPc["publisher"] = "body"
    /\ IF sdDecQ # <<>>
       THEN /\ sdDecQ' = Tail(sdDecQ)
            /\ \E store \in BOOLEAN :
                 IF store /\ sdConn
                 THEN /\ sdStored' = sdStored \cup Range(sdBatch)
                                              \cup {QueueGet(sdDecQ)}
                      /\ sdBatch' = <<>>
                 ELSE /\ sdBatch' = Append(sdBatch, QueueGet(sdDecQ))
                      /\ UNCHANGED sdStored
       ELSE UNCHANGED <<sdDecQ, sdBatch, sdStored>>
    /\ sdPc' = [sdPc EXCEPT !["publisher"] = "while"]
    /\ UNCHANGED <<sdStop, sdCanQ, sdNext, sdReadBefore, sdFailed,
                   notShutdown>>

\* _publisher_worker, lines 285-286: the iteration raises before the
\* record is in the batch.
PublisherFails ==
    /\ sdPc["publisher"] = "body"
    /\ sdDecQ # <<>>
    /\ sdDecQ' = Tail(sdDecQ)
    /\ sdFailed' = sdFailed \cup {QueueGet(sdDecQ)}
    /\ sdPc' = [sdPc EXCEPT !["publisher"] = AfterException]
    /\ UNCHANGED <<sdStop, sdCanQ, sdBatch, sdStored, sdNext, sdReadBefore,
                   notShutdown>>

\* `while self._running:` of the poller, the monitor or the heartbeat,
\* found False.
ServiceExit(t) ==
    /\ sdPc[t] = "loop"
    /\ ~sdFlag[t]
    /\ sdPc' = [sdPc EXCEPT ![t] = "exited"]
    /\ UNCHANGED <<sdStop, sdCanQ, sdDecQ, sdBatch, sdStored, sdNext,
                   sdReadBefore, sdFailed, notShutdown>>

\* stop() is called, line 305: self.running = False. The second call is
\* the one of the finally block of run, after the signal handler's.
ShutdownCall ==
    /\ \/ sdPc["main"] = "run"
       \/ sdPc["main"] = "returned" /\ sdCall = 1
    /\ sdCall' = sdCall + 1
    /\ sdRunning' = FALSE
    /\ sdPc' = [sdPc EXCEPT !["main"] = "poller"]
    /\ UNCHANGED <<sdFlag, sdBus, sdCanQ, sdDecQ, sdSpool, sdNext,
                   sdReadBefore, sdFailed, notShutdown>>

\* stop(), lines 308-317: obd2_poller.stop(), buffer_monitor.stop() and
\* mqtt_client.disconnect() clear the flag and join their thread with a
\* timeout of 5 s.
ShutdownService(at, t, then) ==
    /\ sdPc["main"] = at
    /\ sdFlag' = [sdFlag EXCEPT ![t] = FALSE]
    /\ sdPc' = [sdPc EXCEPT !["main"] = then]
    /\ UNCHANGED <<sdRunning, sdBus, sdCanQ, sdDecQ, sdSpool, sdNext,
                   sdReadBefore, sdFailed, sdCall, notShutdown>>

\* stop(), line 321: local_buffer.flush(), which stores a batch that is
\* not empty; conn.cursor() raises on a closed connection.
ShutdownFlush ==
    /\ sdPc["main"] = "flush"
    /\ IF sdBatch = <<>>
       THEN /\ sdPc' = [sdPc EXCEPT !["main"] = "close"]
            /\ UNCHANGED <<sdBatch, sdStored>>
       ELSE IF sdConn
       THEN /\ sdStored' = sdStored \cup Range(sdBatch)
            /\ sdBatch' = <<>>
            /\ sdPc' = [sdPc EXCEPT !["main"] = "close"]
       ELSE /\ sdPc' = [sdPc EXCEPT !["main"] = "raised"]
            /\ UNCHANGED <<sdBatch, sdStored>>
    /\ UNCHANGED <<sdStop, sdCanQ, sdDecQ, sdNext, sdReadBefore, sdFailed,
                   notShutdown>>

\* stop(), line 322: local_buffer.close(), a last _store_batch and
\* conn.close().
ShutdownClose ==
    /\ sdPc["main"] = "close"
    /\ IF sdBatch = <<>>
       THEN /\ sdConn' = FALSE
            /\ sdPc' = [sdPc EXCEPT !["main"] = "can"]
            /\ UNCHANGED <<sdBatch, sdStored>>
       ELSE IF sdConn
       THEN /\ sdStored' = sdStored \cup Range(sdBatch)
            /\ sdBatch' = <<>>
            /\ sdConn' = FALSE
            /\ sdPc' = [sdPc EXCEPT !["main"] = "can"]
       ELSE /\ sdPc' = [sdPc EXCEPT !["main"] = "raised"]
            /\ UNCHANGED <<sdBatch, sdStored, sdConn>>
    /\ UNCHANGED <<sdRunning, sdFlag, sdBus, sdCall, sdCanQ, sdDecQ, sdNext,
                   sdReadBefore, sdFailed, notShutdown>>

\* stop(), lines 325-326: can_interface.disconnect()
ShutdownCan ==
    /\ sdPc["main"] = "can"
    /\ sdBus' = FALSE
    /\ sdPc' = [sdPc EXCEPT !["main"] = "join"]
    /\ UNCHANGED <<sdRunning, sdFlag, sdConn, sdCall, sdCanQ, sdDecQ,
                   sdBatch, sdStored, sdNext, sdReadBefore, sdFailed,
                   notShutdown>>

\* stop(), lines 329-332: worker.join(timeout=2.0) for each worker, which
\* returns when the thread has ended or the time is up, and stop() returns.
ShutdownJoin ==
    /\ sdPc["main"] = "join"
    /\ sdPc' = [sdPc EXCEPT !["main"] = "returned"]
    /\ UNCHANGED <<sdStop, sdCanQ, sdDecQ, sdBatch, sdStored, sdNext,
                   sdReadBefore, sdFailed, notShutdown>>

WorkerNext ==
    \/ \E w \in Workers : WorkerTest(w)
    \/ ReaderBody \/ ReaderFails
    \/ DecoderBody \/ DecoderFails
    \/ PublisherBody \/ PublisherFails

ShutdownStopNext ==
    \/ ShutdownCall
    \/ ShutdownService("poller", "poller", "monitor")
    \/ ShutdownService("monitor", "monitor", "mqtt")
    \/ ShutdownService("mqtt", "heartbeat", "flush")
    \/ ShutdownFlush \/ ShutdownClose \/ ShutdownCan \/ ShutdownJoin

ShutdownNext ==
    \/ WorkerNext
    \/ \E t \in Services : ServiceExit(t)
    \/ ShutdownStopNext

\* The steps of one worker thread.
ReaderThread == WorkerTest("reader") \/ ReaderBody \/ ReaderFails
DecoderThread == WorkerTest("decoder") \/ DecoderBody \/ DecoderFails
PublisherThread == WorkerTest("publisher") \/ PublisherBody \/ PublisherFails

\* The steps of stop() once it has been called.
ShutdownRun ==
    \/ ShutdownService("poller", "poller", "monitor")
    \/ ShutdownService("monitor", "monitor", "mqtt")
    \/ ShutdownService("mqtt", "heartbeat", "flush")
    \/ ShutdownFlush \/ ShutdownClose \/ ShutdownCan \/ ShutdownJoin

(***************************************************************************)
(* MessageQueue.peek (services/message_queue.py:133-146): the consumer     *)
(* takes the head with get(block=False) and puts it back with              *)
(* put(block=False), two steps on queue.Queue between which the producer   *)
(* may enqueue.                                                            *)
(***************************************************************************)
PeekInit ==
    /\ pkPc = "idle"
    /\ pkMsg = <<>>
    /\ pkRet = <<>>
    /\ pkBefore = <<>>
    /\ pkDequeued = 0

\* What a step of peek leaves alone besides the queue's counters.
notPeek == <<bufVars, bufPcVars, spoolVars, spoolHist, pubVars, concVars,
             crashVars, mqttVars, pollVars, dtcVars, udsVars, obdVars,
             warnVars, recVars, ingestVars, routeVars, shutdownVars,
             _total_enqueued, _total_dequeued, q_total_dropped, qNext, qRet,
             qAccepted, qDelivered, bPc, bMessages, bMaxCount, bRemaining>>

\* peek, line 142: message = self._queue.get(block=False); queue.Empty is
\* caught at line 145 and peek returns None.
PeekGet ==
    /\ pkPc = "idle" /\ bPc = "idle"
    /\ pkBefore' = _queue
    /\ IF _queue = <<>>
       THEN /\ pkRet' = <<>>
            /\ pkDequeued' = _total_dequeued
            /\ UNCHANGED <<_queue, pkMsg, pkPc>>
       ELSE /\ pkMsg' = <<QueueGet(_queue)>>
            /\ _queue' = Tail(_queue)
            /\ pkPc' = "got"
            /\ UNCHANGED <<pkRet, pkDequeued>>
    /\ UNCHANGED notPeek

\* peek, lines 143-144: self._queue.put(message, block=False) and return
\* message; queue.Full is caught at line 145 and peek returns None.
PeekPut ==
    /\ pkPc = "got"
    /\ IF QueueFull(_queue, queue_max_size)
       THEN /\ pkRet' = <<>>
            /\ UNCHANGED _queue
       ELSE /\ _queue' = Append(_queue, pkMsg[1])
            /\ pkRet' = pkMsg
    /\ pkMsg' = <<>>
    /\ pkPc' = "idle"
    /\ pkDequeued' = _total_dequeued
    /\ UNCHANGED <<pkBefore, notPeek>>

\* dequeue by the thread that peeks, which is not inside peek then
PeekDequeue == pkPc = "idle" /\ Dequeue

PeekNext == Enqueue \/ PeekDequeue \/ PeekGet \/ PeekPut

\* The PID whose callback may raise: the first of the schedule.
FailingPid == PollConfig[1].pid

\* _poll_loop, lines 118-119 and 129-130: the callback raises for a due
\* entry; the exception leaves the loop over the schedule and is logged by
\* the handler around the whole pass, and the while loop starts over, with
\* last_poll_time not set and without the sleep.
PollRaise ==
    /\ pPc = "for"
    /\ pIdx <= Len(pid_configs)
    /\ pid_configs[pIdx].pid = FailingPid
    /\ should_poll(pid_configs[pIdx], current_time)
    /\ \E d \in CallbackDurations : pNow' = pNow + d
    /\ pPc' = "top"
    /\ UNCHANGED <<pid_configs, current_time, pIdx, pOps, pOp, pRet,
                   pLastDispatch, pGap, pTick, pAtTop, notPoll>>

\* The polling loop with a callback that may raise for one PID.
PollSinkNext == PollTop(MaxPollTicks) \/ PollCheck \/ PollRaise \/ PollSleep

(***************************************************************************)
(* Specifications.                                                         *)
(***************************************************************************)
Init ==
    /\ BufInit /\ BufPcInit /\ SpoolInit /\ PubInit /\ ConcInit
    /\ CrashInit /\ MqttInit /\ QueueInit /\ PollInit
    /\ DtcInit
    /\ UdsInit
    /\ ObdInit
    /\ WarnInit
    /\ RecInit
    /\ IngestInit
    /\ RouteInit
    /\ ShutdownInit
    /\ PeekInit

SpecBuffer == Init /\ [][BufNext]_vars

SpecBufferConc == Init /\ [][BufConcNext]_vars

SpecSpool == Init /\ [][SpoolNext]_vars

\* The spool with the clock running: time passes whatever the gateway does.
\* Nothing obliges a further message to arrive or a flush to be called.
SpecSpoolFair == Init /\ [][SpoolNext]_vars /\ WF_vars(Tick)

SpecPublisher == Init /\ [][PubNext]_vars

SpecSpoolConc == Init /\ [][ConcNext]_vars

SpecCrash == Init /\ [][CrashNext]_vars

SpecMqtt == Init /\ [][MqttNext]_vars

SpecQueue == Init /\ [][QueueNext]_vars

\* MessageQueue with a consumer that peeks before it dequeues.
SpecPeek == Init /\ [][PeekNext]_vars

SpecPollerLoop == Init /\ [][PollLoopNext]_vars

\* The polling loop with a sink that may fail for one PID; the poller's
\* thread is scheduled again and again.
SpecPollerSink == Init /\ [][PollSinkNext]_vars /\ WF_vars(PollSinkNext)

SpecPoller == Init /\ [][PollNext]_vars

SpecPollerPause == Init /\ [][PollPauseNext]_vars

SpecDtc == Init /\ [][DtcNext]_vars

SpecUds == Init /\ [][UdsNext]_vars

SpecObd == Init /\ [][ObdNext]_vars

SpecWarn == Init /\ [][WarnNext]_vars

\* The CAN reader worker and the decoder worker around can_queue.
SpecIngest == Init /\ [][IngestNext]_vars

\* The decoder worker between can_queue and decoded_queue.
SpecDecoder == Init /\ [][RouteNext]_vars

\* stop() on the main thread against the loops of the gateway.
SpecShutdown == Init /\ [][ShutdownNext]_vars

\* The same with every thread scheduled again and again: the sleeps, the
\* queue timeouts and the join timeouts are all finite. The call of stop()
\* itself is up to the operator.
SpecShutdownFair ==
    /\ SpecShutdown
    /\ WF_vars(ReaderThread) /\ WF_vars(DecoderThread)
    /\ WF_vars(PublisherThread)
    /\ \A t \in Services : WF_vars(ServiceExit(t))
    /\ WF_vars(ShutdownRun)

\* The worker thread is scheduled: a step of its loops over the batches and
\* the messages that is enabled is eventually taken, and the clock runs.
\* Nothing obliges a decoded record to arrive in the queue. The last
\* conjunct is WF_vars(PubForBatch) with its enabling condition written
\* out: PubForBatch is enabled exactly when the worker is at `for batch`.
SpecPublisherUp ==
    /\ Init /\ [][PubUpNext]_vars
    /\ WF_vars(Tick) /\ WF_vars(PubPublishConnected)
    /\ ([]<>(pubPc # "for_batch") \/ []<><<PubForBatch>>_vars)

\* The gateway across an outage: the clock advances, the start and every
\* step of the publisher worker that can be taken is taken in the end, and
\* records keep arriving while the run has some. The conjuncts on
\* RecDequeue and RecForBatch are weak fairness with the enabling condition
\* written out.
SpecRecovery ==
    /\ Init /\ [][RecNext]_vars
    /\ WF_vars(Tick) /\ WF_vars(GwStart) /\ WF_vars(RecPublish)
    /\ ([]<>(~gwStarted \/ pubPc # "for_batch") \/ []<><<RecForBatch>>_vars)
    /\ ([]<>(~gwStarted \/ pubPc # "dequeue" \/ nextMsg > MaxMsgs)
        \/ []<><<RecDequeue>>_vars)

(***************************************************************************)
(* Claims about the ingest buffer.                                         *)
(***************************************************************************)
Held(f) == f \in Range(buffer)

TimesDelivered(f) == Cardinality({i \in DOMAIN delivered : delivered[i] = f})

\* C1: in every state reached by add and get_all calls, total_received =
\* (frames returned by all get_all calls) + total_dropped + (frames held).
C1_Accounting ==
    _total_received = Len(delivered) + _total_dropped + Len(buffer)

\* C1 witness: frames were dropped, frames were returned and frames are held.
C1_Witness ==
    /\ _total_dropped >= 2
    /\ Len(delivered) >= 2
    /\ Len(buffer) = max_size

\* A step of add: the bus advanced to the next frame.
C2_AddStep ==
    nextFrame' = nextFrame + 1 =>
        /\ _total_received' = _total_received + 1
        /\ delivered' = delivered
        /\ IF Len(buffer) = max_size
           THEN /\ buffer' = Append(Tail(buffer), nextFrame)
                /\ _total_dropped' = _total_dropped + 1
           ELSE /\ buffer' = Append(buffer, nextFrame)
                /\ _total_dropped' = _total_dropped

\* A step of get_all: every other step of SpecBuffer.
C2_GetAllStep ==
    nextFrame' = nextFrame =>
        /\ delivered' = delivered \o buffer
        /\ buffer' = <<>>
        /\ _total_received' = _total_received
        /\ _total_dropped' = _total_dropped

\* The held frames are the most recently added ones, in arrival order, and
\* never more than the capacity.
C2_HeldAreNewest ==
    /\ Len(buffer) <= max_size
    /\ \A i \in 1..Len(buffer) : buffer[i] = nextFrame - Len(buffer) + i - 1

\* C2: every add increments total_received by one; an add made while N
\* frames are held discards exactly the oldest held frame and increments
\* total_dropped by one; the held count never exceeds N; get_all returns the
\* held frames (the most recently added) in arrival order and empties the
\* buffer.
C2_DropOldest ==
    /\ []C2_HeldAreNewest
    /\ [][C2_AddStep /\ C2_GetAllStep]_vars

\* C2 witness: an overflowing run was drained: the newest N frames were
\* returned after older ones had been discarded.
C2_Witness ==
    /\ _total_dropped >= 3
    /\ buffer = <<>>
    /\ Len(delivered) = max_size
    /\ delivered[Len(delivered)] = nextFrame - 1

\* C3: with one producer in add and one consumer in get_all interleaved,
\* whenever both are between calls every pushed frame was returned by
\* exactly one get_all, or is still held, or is one of exactly
\* total_dropped discarded frames.
C3_ConcurrentAccounting ==
    (addPc = "idle" /\ getPc = "idle") =>
        LET pushed == 1..(nextFrame - 1)
            kept == {f \in pushed : TimesDelivered(f) >= 1 \/ Held(f)}
        IN  /\ \A f \in pushed : TimesDelivered(f) <= 1
            /\ \A f \in pushed : ~(TimesDelivered(f) = 1 /\ Held(f))
            /\ Cardinality(pushed \ kept) = _total_dropped
            /\ _total_received = Cardinality(pushed)

(***************************************************************************)
(* Claims about the local spool.                                           *)
(***************************************************************************)
\* The messages passed to add_message for the batch stored under id.
Expected(id) == (CHOOSE e \in Range(flushLog) : e.id = id).messages

MessageIds(msgs) == {msgs[i].messageId : i \in 1..Len(msgs)}

\* The ids of the unsent rows in the store, in the order of their flushes.
UnsentInFlushOrder ==
    LET StillUnsent(e) == \E i \in 1..Len(db) :
                              db[i].id = e.id /\ ~db[i].transmitted
        log == SelectSeq(flushLog, StillUnsent)
    IN  [i \in 1..Len(log) |-> log[i].id]

\* C5: decompress_batch of every stored batch yields exactly the messages
\* passed to add_message since the previous flush, in the order added; no
\* message is in two batches, none is missing, and no batch is empty.
C5_BatchContent ==
    /\ \A i \in 1..Len(db) :
          /\ decompress_batch(db[i]) = Expected(db[i].id)
          /\ decompress_batch(db[i]) # <<>>
    /\ \A i, j \in 1..Len(flushLog) :
          i # j => MessageIds(flushLog[i].messages)
                       \cap MessageIds(flushLog[j].messages) = {}
    /\ \A i \in 1..Len(flushLog) :
          \A k \in 1..Len(flushLog[i].messages) :
              flushLog[i].messages[k].messageId
                  = flushLog[i].messages[1].messageId + k - 1
    /\ _current_batch = sinceFlush

\* C5 witness: two batches are stored, one of them with two messages of
\* which the second carries data.
C5_Witness ==
    /\ Len(db) >= 2
    /\ \E i \in 1..Len(db) :
          /\ Len(decompress_batch(db[i])) = 2
          /\ decompress_batch(db[i])[2].data # <<>>

\* C8: get_pending_batches(limit) returns only unsent batches, at most
\* limit of them, and they are the oldest unsent batches in flush order.
C8_PendingOldestUnsent ==
    \A limit \in 0..(Len(db) + 1) :
        LET pending == get_pending_batches(db, limit) IN
        /\ Len(pending) <= limit
        /\ \A i \in 1..Len(pending) : ~pending[i].transmitted
        /\ Len(pending) = Min(limit, Len(UnsentInFlushOrder))
        /\ \A i \in 1..Len(pending) : pending[i].id = UnsentInFlushOrder[i]

\* C8 witness: a sent batch precedes two unsent ones flushed at different
\* times, so a limit of 1 cuts the result and the sent batch is skipped.
C8_Witness ==
    /\ Len(db) = 3
    /\ db[1].transmitted /\ ~db[2].transmitted /\ ~db[3].transmitted
    /\ db[1].timestamp = db[2].timestamp
    /\ db[2].timestamp < db[3].timestamp

\* The in-memory batch has met a flush trigger.
C7_Triggered ==
    /\ _current_batch # <<>>
    /\ \/ _current_batch_size >= MAX_BATCH_SIZE
       \/ now - _batch_start_time > BATCH_TIME_WINDOW

\* C7 as claimed: a non-empty batch that has reached the size threshold or
\* is older than the time window is eventually flushed, whether or not a
\* further message is added.
C7_EventuallyFlushed == C7_Triggered ~> (_current_batch = <<>>)

\* A step of add_message: the next message was taken.
C7_IsAddStep == nextMsg' = nextMsg + 1

\* C7 as amended: the triggers are tested in add_message only. A call of
\* add_message that finds the size threshold reached or the window elapsed
\* stores the whole batch, the new message included, and leaves the
\* in-memory batch empty; any other call leaves a batch below the size
\* threshold. Between calls the in-memory batch is below the size threshold.
C7_FlushOnAdd ==
    /\ [](_current_batch_size < MAX_BATCH_SIZE)
    /\ [][C7_IsAddStep =>
            IF _current_batch' = <<>>
            THEN /\ seq_id' = seq_id + 1
                 /\ Len(flushLog') = Len(flushLog) + 1
                 /\ Len(flushLog'[Len(flushLog')].messages)
                        = Len(_current_batch) + 1
                 /\ \/ _current_batch_size
                           + message_size(flushLog'[Len(flushLog')]
                                 .messages[Len(_current_batch) + 1])
                         >= MAX_BATCH_SIZE
                    \/ now - _batch_start_time >= BATCH_TIME_WINDOW
            ELSE /\ Len(_current_batch') = Len(_current_batch) + 1
                 /\ _current_batch_size' < MAX_BATCH_SIZE
                 /\ now - _batch_start_time < BATCH_TIME_WINDOW
                 /\ seq_id' = seq_id]_vars

\* C7 witness: one batch was stored by the size trigger, and the batch now
\* in memory has outlived the window with no add_message to flush it.
C7_Witness ==
    /\ \E i \in 1..Len(db) : db[i].size_bytes >= MAX_BATCH_SIZE + 5
    /\ _current_batch # <<>>
    /\ now - _batch_start_time > BATCH_TIME_WINDOW

\* A step of mark_transmitted in SpecSpool: no message arrives, no batch is
\* stored and the clock stands.
C9_IsMarkStep == nextMsg' = nextMsg /\ seq_id' = seq_id /\ now' = now

\* C9: once mark_transmitted was applied to a batch its flag never reverts
\* and get_pending_batches never returns it again; mark_transmitted(id)
\* changes no other batch.
C9_SentMonotonic ==
    /\ [](\A i \in 1..Len(db) : db[i].id \in marked => db[i].transmitted)
    /\ [](\A limit \in 0..(Len(db) + 1) :
            \A i \in 1..Len(get_pending_batches(db, limit)) :
                get_pending_batches(db, limit)[i].id \notin marked)
    /\ [][\A i \in 1..Len(db) : \A j \in 1..Len(db') :
            (db[i].id = db'[j].id /\ db[i].transmitted)
                => db'[j].transmitted]_vars
    /\ [][C9_IsMarkStep =>
            /\ Len(db') = Len(db)
            /\ \E id \in 1..seq_id :
                  \A i \in 1..Len(db) :
                      /\ db[i].id # id => db'[i] = db[i]
                      /\ db[i].id = id
                            => db'[i] = [db[i] EXCEPT !.transmitted = TRUE]]_vars

\* C9 witness: the second of three batches was marked and batches were
\* flushed after that.
C9_Witness ==
    /\ Len(db) = 3
    /\ marked = {db[2].id}
    /\ ~db[1].transmitted /\ db[2].transmitted /\ ~db[3].transmitted
    /\ _current_batch # <<>>

\* The rows the latest _check_buffer_size deleted.
Evicted == Ids(lastInsert) \ Ids(db)

\* C10: after an insert that takes the stored size over the cap, eviction
\* deletes sent rows, oldest first, and no unsent row while a sent row
\* exists; with no sent row it deletes exactly the oldest EVICT_LIMIT rows,
\* or all when there are fewer. Under the cap it deletes nothing.
C10_EvictionOrder ==
    LET sentIds == {lastInsert[i].id : i \in {k \in 1..Len(lastInsert) :
                                                lastInsert[k].transmitted}}
        oldest == Limit(OrderByTimestamp(lastInsert), EVICT_LIMIT)
    IN  /\ SumSizeBytes(lastInsert) <= MAX_BUFFER_SIZE => Evicted = {}
        /\ (SumSizeBytes(lastInsert) > MAX_BUFFER_SIZE /\ sentIds # {}) =>
              /\ Evicted # {}
              /\ Evicted \subseteq sentIds
              /\ \A i, j \in 1..Len(lastInsert) :
                    ( /\ lastInsert[j].id \in Evicted
                      /\ lastInsert[i].transmitted
                      /\ lastInsert[i].timestamp <= lastInsert[j].timestamp )
                        => lastInsert[i].id \in Evicted
        /\ (SumSizeBytes(lastInsert) > MAX_BUFFER_SIZE /\ sentIds = {}) =>
              /\ Evicted = Ids(oldest)
              /\ Cardinality(Evicted) = Min(EVICT_LIMIT, Len(lastInsert))

\* C10 witness: a sent batch was evicted while an older unsent batch and
\* the new batch stay in the store.
C10_Witness ==
    /\ Len(lastInsert) = 3
    /\ lastInsert[2].transmitted
    /\ ~lastInsert[1].transmitted
    /\ Evicted = {lastInsert[2].id}
    /\ Len(db) = 2

(***************************************************************************)
(* Claims about the publisher worker.                                      *)
(***************************************************************************)
\* C4: every stored batch whose transmitted flag is set has had a
\* successful publish of each of its messages.
C4_SentImpliesAllPublished ==
    \A i \in 1..Len(db) :
        db[i].transmitted =>
            \A k \in 1..Len(decompress_batch(db[i])) :
                <<db[i].id, k>> \in published

(***************************************************************************)
(* Claims about stop() against the publisher worker.                       *)
(***************************************************************************)
\* How often the message with this id occurs in the stored batches and in
\* the in-memory batch.
RECURSIVE CountInLog(_, _)
CountInLog(log, id) ==
    IF log = <<>> THEN 0
    ELSE Cardinality({k \in 1..Len(log[1].messages) :
                        log[1].messages[k].messageId = id})
         + CountInLog(Tail(log), id)

CountInMemory(id) ==
    Cardinality({k \in 1..Len(_current_batch) :
                    _current_batch[k].messageId = id})

\* C6: with flush()/close() on the main thread interleaved with
\* add_message on the worker, once both threads are outside the spool every
\* message add_message accepted is in exactly one stored batch or in the
\* in-memory batch.
C6_AcceptedExactlyOnce ==
    (cPc[Worker] \in {"loop", "dequeue", "stopped"}
        /\ cPc[Main] \in {"run", "done"}) =>
        \A id \in 1..(nextMsg - 1) :
            CountInLog(flushLog, id) + CountInMemory(id) = 1

(***************************************************************************)
(* Claims about the size of the store.                                     *)
(***************************************************************************)
\* C11: after every completed flush (the insert followed by its eviction
\* step) the recorded sizes of the rows in the store sum to at most
\* MAX_BUFFER_SIZE.
C11_SizeBound == SumSizeBytes(db) <= MAX_BUFFER_SIZE

(***************************************************************************)
(* Claims about the spool across a kill of the process.                    *)
(***************************************************************************)
\* The row of the file with the given id, as a set of at most one row.
DiskRows(id) == {disk[j] : j \in {k \in 1..Len(disk) : disk[k].id = id}}

\* The ids get_pending_batches returns from the file after a restart.
PendingIdsOnDisk ==
    LET p == get_pending_batches(disk, PUBLISH_LIMIT)
    IN  [i \in 1..Len(p) |-> p[i].id]

\* C12: whatever the position of a kill, (1) a call that has returned left
\* nothing uncommitted, (2) every batch whose _store_batch had returned is
\* in the file with its messages unless a committed eviction deleted it,
\* (3) its sent flag is the one the returned mark_transmitted calls gave it,
\* (4) every message accepted by add_message is in the file, in the
\* in-memory batch, or was in the in-memory batch at a kill, and (5) the
\* pending batches of the file are all its unsent rows in flush order.
C12_CrashSafety ==
    /\ kPc = "idle" => db = disk /\ seq_id = diskSeq
    /\ \A i \in 1..Len(kFlushed) :
         kFlushed[i].id \notin kEvicted =>
           /\ DiskRows(kFlushed[i].id) # {}
           /\ \A r \in DiskRows(kFlushed[i].id) :
                decompress_batch(r) = kFlushed[i].messages
    /\ \A j \in 1..Len(disk) :
         /\ disk[j].id \in kMarked => disk[j].transmitted
         /\ disk[j].transmitted => disk[j].id \in kMarked \cup {kMarkId}
    /\ \A m \in 1..(nextMsg - 1) :
         \/ m \in IdsOfMessages(_current_batch)
         \/ m \in kLost
         \/ \E i \in 1..Len(kFlushed) :
              m \in IdsOfMessages(kFlushed[i].messages)
    /\ \A a, b \in 1..Len(PendingIdsOnDisk) :
         a < b => PendingIdsOnDisk[a] < PendingIdsOnDisk[b]
    /\ Range(PendingIdsOnDisk)
         = {disk[j].id : j \in {k \in 1..Len(disk) : ~disk[k].transmitted}}

\* C12 witness: the process was killed with a message in memory and has
\* restarted on a file that holds a sent and an unsent batch.
C12_Witness ==
    /\ kills >= 1
    /\ kPc = "idle"
    /\ kLost # {}
    /\ _current_batch = <<>>
    /\ db = disk
    /\ \E i, j \in 1..Len(disk) : disk[i].transmitted /\ ~disk[j].transmitted
    /\ \E m \in kLost :
         \A i \in 1..Len(kFlushed) :
            m \notin IdsOfMessages(kFlushed[i].messages)

(***************************************************************************)
(* Claims about MQTTClient.publish.                                        *)
(***************************************************************************)
\* The waits after the first, second and third failed attempt, in seconds.
C14_Waits == <<1, 2, 4>>

\* The attempts of the latest call that failed.
C14_FailedTried == {a \in 0..(mCall.tried - 1) : ~mCall.outcomes[a]}

\* C14: a call of publish makes at most three delivery attempts and waits
\* 1 s, 2 s, 4 s after the failed ones; it returns True at the first attempt
\* that succeeds and False only when every attempt it made has failed; not
\* connected, it returns False with no attempt and no counter changed;
\* connected, it adds exactly one to exactly one of publish_success and
\* publish_failed.
C14_PublishRetry ==
    /\ mCall.tried <= PUBLISH_ATTEMPTS
    /\ mCall.ret =>
         /\ mCall.tried >= 1
         /\ mCall.outcomes[mCall.tried - 1]
         /\ C14_FailedTried = 0..(mCall.tried - 2)
    /\ ~mCall.ret => C14_FailedTried = 0..(mCall.tried - 1)
    /\ (mCall.connected /\ mCall.serialisable /\ ~mCall.ret) =>
         mCall.tried = PUBLISH_ATTEMPTS
    /\ Len(mCall.waits) = Cardinality(C14_FailedTried)
    /\ \A k \in 1..Len(mCall.waits) : mCall.waits[k] = C14_Waits[k]
    /\ ~mCall.connected =>
         /\ ~mCall.ret /\ mCall.tried = 0
         /\ mCalls > 0 => <<_publish_success, _publish_failed>> = mBefore
    /\ mCall.connected =>
         \/ /\ mCall.ret
            /\ <<_publish_success, _publish_failed>>
                 = <<mBefore[1] + 1, mBefore[2]>>
         \/ /\ ~mCall.ret
            /\ <<_publish_success, _publish_failed>>
                 = <<mBefore[1], mBefore[2] + 1>>

\* C14 witness: a call made while connected has failed three times and
\* slept all three waits, after an earlier call that succeeded.
C14_Witness ==
    /\ mCall.connected /\ mCall.serialisable
    /\ ~mCall.ret
    /\ mCall.tried = PUBLISH_ATTEMPTS
    /\ mCall.waits = C14_Waits
    /\ _publish_success = 1
    /\ _publish_failed = 1

(***************************************************************************)
(* Claims about the liveness of the publisher worker.                      *)
(***************************************************************************)
\* Some stored batch is not marked transmitted.
UnsentStored == \E i \in 1..Len(db) : ~db[i].transmitted

\* C13: if from some point on the transport stays connected (and publish
\* attempts succeed), then from some point on no stored batch is left
\* unsent, whether or not a further decoded record arrives.
C13_PublisherLiveness == <>[]_connected => <>[]~UnsentStored

(***************************************************************************)
(* Claims about MessageQueue.                                              *)
(***************************************************************************)
\* A step of enqueue: the next message was handed over.
C15_IsEnqueueStep == qNext' = qNext + 1

\* C15: the queue never holds more than max_size messages; an enqueue on a
\* queue holding max_size messages returns False, leaves the queued
\* messages as they were and adds exactly one to total_dropped; an enqueue
\* on a queue with room returns True, appends the message and adds one to
\* total_enqueued.
C15_Backpressure ==
    /\ [](Len(_queue) <= queue_max_size)
    /\ [][C15_IsEnqueueStep =>
            IF Len(_queue) = queue_max_size
            THEN /\ ~qRet'
                 /\ _queue' = _queue
                 /\ q_total_dropped' = q_total_dropped + 1
                 /\ _total_enqueued' = _total_enqueued
            ELSE /\ qRet'
                 /\ _queue' = Append(_queue, qNext)
                 /\ _total_enqueued' = _total_enqueued + 1
                 /\ q_total_dropped' = q_total_dropped]_vars

\* C15 witness: the queue is full and the latest enqueue was refused.
C15_Witness ==
    /\ ~qRet
    /\ Len(_queue) = queue_max_size
    /\ q_total_dropped = 1
    /\ _total_enqueued = queue_max_size

\* C16: the messages returned so far, then those dequeue_batch has taken
\* but not yet returned, then those still queued, are exactly the messages
\* whose enqueue returned True, in that order: what the consumer receives
\* is the accepted sequence, nothing twice, nothing skipped.
C16_Fifo == qDelivered \o bMessages \o _queue = qAccepted

\* C16 witness: a message was refused between accepted ones, and dequeue
\* and dequeue_batch together have returned the accepted ones.
C16_Witness ==
    /\ Len(qDelivered) >= 3
    /\ q_total_dropped >= 1
    /\ qDelivered = qAccepted
    /\ bPc = "idle" /\ bMaxCount > 0
    /\ \E i \in 1..(Len(qDelivered) - 1) :
         qDelivered[i + 1] > qDelivered[i] + 1

\* The time between two consecutive dispatches of a pid is at least its
\* interval.
C17_GapNotShort == pGap.pid # 0 => pGap.gap >= pGap.interval_ms

\* The time between two consecutive dispatches of a pid is less than its
\* interval plus two ticks of the loop.
C17_GapNotLong ==
    pGap.pid # 0 => pGap.gap < pGap.interval_ms + 2 * POLL_SLEEP_MS

\* C17: for every entry of the schedule with interval I that stays enabled,
\* the time between two consecutive dispatches of its PID is at least I and
\* less than I plus two ticks of the polling loop.
C17_Cadence == C17_GapNotShort /\ C17_GapNotLong

\* The step is a call of a control operation of the poller.
C18_IsControlStep == pOps' = pOps + 1

\* C18: a control operation that fails has no side effect. set_interval with
\* an interval outside [100, 5000] returns False and leaves the schedule
\* unchanged; set_interval, enable_pid, disable_pid and remove_pid on a PID
\* that is not in the schedule return False and leave it unchanged; add_pid
\* of a PID already in the schedule leaves it unchanged.
C18_FailNoSideEffects ==
    [][C18_IsControlStep =>
        /\ (/\ pOp'.name = "set_interval"
            /\ (pOp'.interval_ms < 100 \/ pOp'.interval_ms > 5000))
           => (pRet' = "False" /\ pid_configs' = pid_configs)
        /\ (/\ pOp'.name \in {"set_interval", "enable_pid", "disable_pid",
                              "remove_pid"}
            /\ pOp'.pid \notin PidsOf(pid_configs))
           => (pRet' = "False" /\ pid_configs' = pid_configs)
        /\ (pOp'.name = "add_pid" /\ pOp'.pid \in PidsOf(pid_configs))
           => pid_configs' = pid_configs]_vars

\* set_interval has been called, as the second control operation of the
\* run, on a PID of the schedule with an interval above 5000 and has
\* returned False.
C18_Witness ==
    /\ pOp.name = "set_interval"
    /\ pOp.pid \in PidsOf(pid_configs)
    /\ pOp.interval_ms > 5000
    /\ pRet = "False"
    /\ pOps = 2

\* Every entry of the schedule has its interval within [100, 5000].
C19_IntervalsInRange ==
    \A i \in 1..Len(pid_configs) :
        pid_configs[i].interval_ms >= 100 /\ pid_configs[i].interval_ms <= 5000

\* The last_poll_time of a PID of the schedule, 0 when it has no entry.
C19_LastPollTime(configs, pid) ==
    IF FindPid(configs, pid) = 0 THEN 0
    ELSE configs[FindPid(configs, pid)].last_poll_time

\* C19: every entry of the schedule, whether loaded from the configuration,
\* added by add_pid or changed by set_interval, has interval_ms within
\* [100, 5000], and the last_poll_time of an entry never decreases.
C19_EntryInvariant ==
    /\ [](C19_IntervalsInRange)
    /\ [][\A pid \in PidsOf(pid_configs) \cap PidsOf(pid_configs') :
            C19_LastPollTime(pid_configs', pid)
                >= C19_LastPollTime(pid_configs, pid)]_vars

\* The last_poll_time of an entry never decreases.
C19_LastPollMonotone ==
    [][\A pid \in PidsOf(pid_configs) \cap PidsOf(pid_configs') :
            C19_LastPollTime(pid_configs', pid)
                >= C19_LastPollTime(pid_configs, pid)]_vars

HexCharacters == {"0", "1", "2", "3", "4", "5", "6", "7", "8", "9",
                  "A", "B", "C", "D", "E", "F"}

\* The code matches ^[PCBU][0-3][0-9A-F]{3}$.
C20_Matches(code) ==
    /\ Len(code) = 5
    /\ code[1] \in {"P", "C", "B", "U"}
    /\ code[2] \in {"0", "1", "2", "3"}
    /\ \A i \in 3..5 : code[i] \in HexCharacters

\* C20: for every 3-byte input to the UDS DTC decoder and every 2-byte
\* input to the OBD-II DTC decoder, the code produced has exactly 5
\* characters and matches ^[PCBU][0-3][0-9A-F]{3}$.
C20_DtcWellFormed == dtcDecoder # "none" => C20_Matches(dtcCode)

\* The payload 59 02 FF 01 03 01 08 01 04 20 48.
C21_Payload == <<89, 2, 255, 1, 3, 1, 8, 1, 4, 32, 72>>

\* The complete 4-byte records that follow the 3-byte header.
C21_Records(data) == (Len(data) - 3) \div 4

\* The decoder has returned a message for a 0x59 response of 3 bytes or
\* more.
C21_Decoded == udsOp = "decode" /\ Len(udsData) >= 3 /\ udsData[1] = 89

\* dtc_info has one entry per complete record, in wire order, each with
\* the record's 4th byte as status and the severity derived from it.
C21_OnePerRecord ==
    C21_Decoded =>
        /\ Len(udsOut) = 1
        /\ Len(udsOut[1].dtc_info) = 1
        /\ LET dtc_list == udsOut[1].dtc_info[1]
           IN  /\ Len(dtc_list) = C21_Records(udsData)
               /\ \A k \in 1..Len(dtc_list) :
                    /\ dtc_list[k].status_byte = udsData[3 + 4 * k]
                    /\ dtc_list[k].severity
                        = _get_dtc_severity(udsData[3 + 4 * k])

\* The payload 59 02 FF 01 03 01 08 01 04 20 48 decodes to P0301 with
\* status 0x08, low, and P0420 with status 0x48, high.
C21_Example ==
    (udsOp = "decode" /\ udsData = C21_Payload) =>
        /\ Len(udsOut) = 1
        /\ udsOut[1].dtc_info =
            <<<<[code |-> <<"P", "0", "3", "0", "1">>, status_byte |-> 8,
                 severity |-> "low"],
                [code |-> <<"P", "0", "4", "2", "0">>, status_byte |-> 72,
                 severity |-> "high"]>>>>

\* C21: for a 0x59 response dtc_info has one entry per complete 4-byte
\* record after the 3-byte header, in wire order, with the record's 4th
\* byte as status and the severity derived from it; the payload
\* 59 02 FF 01 03 01 08 01 04 20 48 gives exactly P0301 / 0x08 / low and
\* P0420 / 0x48 / high.
C21_ReadDtcResponse == C21_OnePerRecord /\ C21_Example

\* C22: for every payload of at least 3 bytes whose first byte is 0x7F,
\* decode_message yields a message that identifies the negative response:
\* the requested service is byte 1 and response_code is byte 2.
C22_NegativeResponse ==
    (udsOp = "decode" /\ Len(udsData) >= 3 /\ udsData[1] = 127) =>
        /\ Len(udsOut) = 1
        /\ udsOut[1].service_id = udsData[2]
        /\ udsOut[1].response_code = <<udsData[3]>>

\* The service the first byte of a payload maps to: the byte, less the
\* response bit when the byte is 0x40 or more.
C23_ServiceOf(data) == IF data[1] >= 64 THEN data[1] - 64 ELSE data[1]

\* C23: every message decode_message produces has a service id of the
\* known set; a payload whose first byte does not map to a known service
\* yields no message.
C23_KnownService ==
    udsOp = "decode" =>
        /\ Len(udsOut) = 1 => udsOut[1].service_id \in UDSService
        /\ (Len(udsData) >= 1 /\ C23_ServiceOf(udsData) \notin UDSService)
            => udsOut = <<>>

\* The first bytes of the known services: S as a request and S with the
\* response bit 0x40 set as a positive response.
C24_KnownFirstBytes ==
    VALID_SERVICE_IDS \cup {S + 64 : S \in VALID_SERVICE_IDS}

\* The known service a first byte stands for, as a request or as a positive
\* response.
C24_ServiceOf(byte) ==
    CHOOSE S \in VALID_SERVICE_IDS : byte = S \/ byte = S + 64

\* The payload has the minimum length of its service, 1 when the service
\* has none.
C24_SufficientLength(data) ==
    Len(data) >= (IF C24_ServiceOf(data[1]) \in DOMAIN MIN_MESSAGE_LENGTHS
                  THEN MIN_MESSAGE_LENGTHS[C24_ServiceOf(data[1])] ELSE 1)

\* C24: a payload of sufficient length whose first byte is a known service
\* id, or one with the response bit set, is not rejected with
\* INVALID_SERVICE_ID; every non-empty payload whose first byte is neither
\* 0x7F nor such a value is rejected with is_valid = false and
\* INVALID_SERVICE_ID; an empty payload is rejected with EMPTY_MESSAGE.
C24_ServiceIdCheck ==
    udsOp = "validate" =>
        /\ (/\ Len(udsData) >= 1
            /\ udsData[1] \in C24_KnownFirstBytes
            /\ C24_SufficientLength(udsData))
           => udsOut.error_code # <<"INVALID_SERVICE_ID">>
        /\ (/\ Len(udsData) >= 1
            /\ udsData[1] # 127
            /\ udsData[1] \notin C24_KnownFirstBytes)
           => (~udsOut.is_valid
               /\ udsOut.error_code = <<"INVALID_SERVICE_ID">>)
        /\ udsData = <<>>
           => (~udsOut.is_valid /\ udsOut.error_code = <<"EMPTY_MESSAGE">>)

\* validate_message has returned for a non-empty payload whose first byte
\* is the negative-response sentinel 0x7F.
C25_Validated == udsOp = "validate" /\ Len(udsData) >= 1 /\ udsData[1] = 127

\* C25, as stated: for every non-empty payload whose first byte is 0x7F,
\* validate_message returns is_valid = true with no error code and with a
\* warning containing the decoded response-code text.
C25_AlwaysValid ==
    C25_Validated =>
        /\ udsOut.is_valid
        /\ udsOut.error_code = <<>>
        /\ Len(udsOut.warnings) >= 1

\* C25, amended: a payload of 3 bytes or more whose first byte is 0x7F is
\* valid, with no error code and one warning, "Negative response: "
\* followed by the text of byte 2 in the table of response codes, or by
\* "Unknown response code: " and the byte when the table has no entry; a
\* payload of 1 or 2 bytes whose first byte is 0x7F is rejected with
\* INVALID_NEGATIVE_RESPONSE and no warning.
C25_NegativeResponseValidated ==
    C25_Validated =>
        IF Len(udsData) >= 3
        THEN /\ udsOut.is_valid
             /\ udsOut.error_code = <<>>
             /\ Len(udsOut.warnings) = 1
             /\ udsOut.warnings[1].text = "Negative response: "
             /\ udsOut.warnings[1].value = <<ResponseDesc(udsData[3])>>
        ELSE /\ ~udsOut.is_valid
             /\ udsOut.error_code = <<"INVALID_NEGATIVE_RESPONSE">>
             /\ udsOut.warnings = <<>>

\* validate_message has returned for 7F 22 11, valid, with the warning
\* that carries "Service Not Supported".
C25_Witness ==
    /\ udsOp = "validate"
    /\ udsData = <<127, 34, 17>>
    /\ udsOut.is_valid
    /\ udsOut.warnings[1].value[1].text = "Service Not Supported"

\* decode_message has returned for a mode-01 response that names a PID.
C26_Mode01Response ==
    obdOp = "decode" /\ Len(obdData) >= 2 /\ obdData[1] = 65

\* The value, in hundredths, is the fraction rounded to two decimals: no
\* other number of hundredths is nearer.
C26_IsRounded(hundredths, f) ==
    /\ 2 * (100 * f.num - hundredths * f.den) <= f.den
    /\ 2 * (hundredths * f.den - 100 * f.num) <= f.den

\* C26: for a mode-01 response whose PID is in the table and which carries
\* at least that PID's byte count, decode_message returns a message with
\* exactly one parameter, with the table's name and unit, the first
\* `bytes` payload bytes as raw value and the table formula applied to them
\* rounded to two decimals as value (41 0C 27 10 gives engine_rpm 2500); for
\* a PID absent from the table it returns a message with no parameters.
C26_CurrentData ==
    C26_Mode01Response =>
        LET pid == obdData[2]
        IN  /\ Len(obdOut) = 1
            /\ (/\ pid \in DOMAIN PID_DEFINITIONS
                /\ Len(obdData) >= 2 + PID_DEFINITIONS[pid].bytes)
               => /\ Len(obdOut[1].parameters) = 1
                  /\ LET p == obdOut[1].parameters[1]
                         raw == Slice(obdData, 2,
                                      2 + PID_DEFINITIONS[pid].bytes)
                     IN  /\ p.name = PID_DEFINITIONS[pid].name
                         /\ p.unit = PID_DEFINITIONS[pid].unit
                         /\ p.raw_value = raw
                         /\ C26_IsRounded(p.value, Formula(pid, raw))
            /\ pid \notin DOMAIN PID_DEFINITIONS
               => obdOut[1].parameters = <<>>
            /\ obdData = <<65, 12, 39, 16>>
               => /\ obdOut[1].parameters[1].name = "engine_rpm"
                  /\ obdOut[1].parameters[1].value = 250000

\* decode_message has returned one parameter for 41 11 03, throttle
\* position 300 / 255 = 1.176..., rounded up to 1.18.
C26_Witness ==
    /\ obdOp = "decode"
    /\ obdData = <<65, 17, 3>>
    /\ Len(obdOut[1].parameters) = 1
    /\ obdOut[1].parameters[1].value = 118

\* C27: any two utilisation warnings logged about the CAN ingest buffer, by
\* the CAN interface or by the buffer monitor, are at least 60 s apart.
C27_WarningsRateLimited ==
    wPrev.by # "none" => wLast.at - wPrev.at >= 60

(***************************************************************************)
(* Claims about the recovery from a broker outage.                         *)
(***************************************************************************)
\* Once the gateway has started without a connection it never gets one:
\* nothing calls connect() again.
C28_NoRetry == [][(gwStarted /\ ~_connected) => ~_connected']_vars

\* If the broker stays within reach from some point on, the gateway holds a
\* connection from some point on.
C28_Reconnects == <>[]brokerUp => <>[](gwStarted /\ _connected)

\* If the broker stays within reach from some point on, then from some
\* point on no stored batch is left unsent.
C28_Drains == <>[]brokerUp => <>[]~UnsentStored

\* C28: if connecting to the broker fails at startup, or the connection is
\* lost later, the gateway eventually retries the connection, so that once
\* the broker is reachable again every spooled unsent batch is eventually
\* published.
C28_OutageRecovery ==
    <>[]brokerUp => (<>[](gwStarted /\ _connected) /\ <>[]~UnsentStored)

(***************************************************************************)
(* Claims about the order of publication.                                  *)
(***************************************************************************)
\* Batch a was stored before batch b: get_pending_batches orders by
\* timestamp, rows of one timestamp in the order of their insertion.
C29_Older(a, b) ==
    \/ a.timestamp < b.timestamp
    \/ a.timestamp = b.timestamp /\ a.id < b.id

\* The batches still to be published in this pass stand oldest first, and
\* all are younger than the batch being published.
C29_OldestFirst ==
    /\ \A i, j \in 1..Len(pubBatches) :
          i < j => C29_Older(pubBatches[i], pubBatches[j])
    /\ pubPc = "for_message" =>
          \A i \in 1..Len(pubBatches) : C29_Older(pubBatch, pubBatches[i])

\* A step in which publish_telemetry returned False.
C29_IsFailedPublish ==
    /\ pubPc = "for_message"
    /\ pubPc' = "for_batch"
    /\ pubMessages' = pubMessages

\* The pass ends at a failed publish: the loop over the batches does not go
\* on to a batch that is left.
C29_AbortOnFailure ==
    (C29_IsFailedPublish /\ pubBatches # <<>>) => pubPc' = "dequeue"

\* A message is published only when every message of each older stored
\* batch that is not marked sent has been published.
C29_NoOvertaking ==
    published' # published =>
        \A i \in 1..Len(db) :
            (~db[i].transmitted /\ C29_Older(db[i], pubBatch)) =>
                \A k \in 1..Len(decompress_batch(db[i])) :
                    <<db[i].id, k>> \in published

\* C29: a publisher pass takes the pending batches oldest first; when a
\* publish fails the pass stops at that batch, so that no message of a
\* batch is published before every message of each older unsent batch.
C29_PublicationOrder ==
    /\ []C29_OldestFirst
    /\ [][C29_AbortOnFailure]_vars
    /\ [][C29_NoOvertaking]_vars

\* The three parts of C29 as formulas of their own.
C29_PassOldestFirst == []C29_OldestFirst
C29_PassAborts == [][C29_AbortOnFailure]_vars
C29_OlderFirst == [][C29_NoOvertaking]_vars

(***************************************************************************)
(* Claims about the hand-off from the CAN reader to the decoder.           *)
(***************************************************************************)
\* The frames the decoder worker has taken from can_queue.
C30_Decoded == {decoderGot[i] : i \in 1..Len(decoderGot)}

\* Every frame read from the bus was admitted to the hand-off: it is
\* waiting for the decoder, or the decoder has it, or it was discarded as
\* the oldest and counted by the ingest buffer.
C30_NewestAdmitted ==
    /\ canRefused = {}
    /\ \A f \in 1..(canNext - 1) :
          \/ \E i \in 1..Len(can_queue) : can_queue[i] = f
          \/ f \in C30_Decoded
          \/ f \in canCounted

\* No frame is both counted as dropped by the ingest buffer and handed to
\* the decoder.
C30_DroppedNotDecoded == canCounted \cap C30_Decoded = {}

\* C30: the hand-off from the CAN reader to the decoder drops the oldest
\* frame: a newly read frame is always admitted, and no frame the ingest
\* buffer counted as dropped reaches the decoder.
C30_DropOldestHandOff == C30_NewestAdmitted /\ C30_DroppedNotDecoded

(***************************************************************************)
(* Claims about the routing in the decoder worker.                         *)
(***************************************************************************)
\* The frame of the latest iteration is in the response range 0x7E8-0x7EF.
C31_InRange == decFrame[1].can_id >= 2024 /\ decFrame[1].can_id <= 2031

\* The OBD-II decoder returns, for the latest frame, a message with a
\* parameter or a code, whichever way a rounding tie falls.
C31_ObdNonEmpty ==
    \A tie \in {"down", "up"} :
        LET m == obd2_decode_message(decFrame[1].data, tie)
        IN  m # <<>> /\ (m[1].parameters # <<>> \/ m[1].dtcs # <<>>)

\* C31: a frame outside 0x7E8-0x7EF yields no record; a frame inside yields
\* a uds record exactly when the UDS decoder returns a message and an obd2
\* record when the OBD-II decoder returns a message that is not empty, one
\* with codes and no parameters included; the uds record comes first and
\* both carry the frame's timestamp.
C31_DecoderRouting ==
    decFrame # <<>> =>
        LET types == [i \in 1..Len(decHanded) |-> decHanded[i].message_type]
            wantUds == C31_InRange /\ decode_message(decFrame[1].data) # <<>>
            wantObd == C31_InRange /\ C31_ObdNonEmpty
        IN  /\ ~C31_InRange => decHanded = <<>>
            /\ types = (IF wantUds THEN <<"uds">> ELSE <<>>)
                       \o (IF wantObd THEN <<"obd2">> ELSE <<>>)
            /\ \A i \in 1..Len(decHanded) :
                  decHanded[i].timestamp = decFrame[1].timestamp

(***************************************************************************)
(* Claims about the poller after a pause.                                  *)
(***************************************************************************)
\* The step dispatches the entry the loop is at.
C32_IsDispatch == pPc = "for" /\ Len(pTick') = Len(pTick) + 1

\* The entry the loop is at was polled before and has not been polled for
\* two of its intervals or longer.
C32_LongIdle ==
    /\ pLastDispatch[pid_configs[pIdx].pid] # 0
    /\ current_time - pid_configs[pIdx].last_poll_time
          >= 2 * pid_configs[pIdx].interval_ms

\* No pid is dispatched twice in one pass of the loop.
C32_OncePerTick ==
    \A i, j \in 1..Len(pTick) : i # j => pTick[i] # pTick[j]

\* After a long idle time the entry is dispatched and is not due again
\* before one interval has passed on the clock the loop reads.
C32_NoBurst ==
    (C32_IsDispatch /\ C32_LongIdle) =>
        \A t \in current_time..(current_time
                                 + pid_configs[pIdx].interval_ms - 1) :
            ~should_poll(pid_configs'[pIdx], t)

\* After a long idle time last_poll_time becomes the time of the dispatch.
C32_ActualTime ==
    (C32_IsDispatch /\ C32_LongIdle) =>
        pid_configs'[pIdx].last_poll_time = pNow

\* A dispatch comes one interval or more after the dispatch before it of
\* the same pid.
C32_FullInterval ==
    (C32_IsDispatch /\ pLastDispatch[pid_configs[pIdx].pid] # 0) =>
        pNow - pLastDispatch[pid_configs[pIdx].pid]
            >= pid_configs[pIdx].interval_ms

\* The parts of C32 as formulas of their own.
C32_PassOncePerTick == []C32_OncePerTick
C32_StepNoBurst == [][C32_NoBurst]_vars
C32_StepActualTime == [][C32_ActualTime]_vars
C32_StepFullInterval == [][C32_FullInterval]_vars

\* C32: an entry that was not polled for two intervals or longer, the loop
\* having been paused or the entry disabled, is dispatched once on the
\* first pass that finds it due, its last_poll_time becomes the time of
\* that dispatch, the following dispatch is one full interval later or
\* more, and no pid is dispatched twice in one pass.
C32_NoCatchUpBurst ==
    /\ []C32_OncePerTick
    /\ [][C32_NoBurst]_vars
    /\ [][C32_ActualTime]_vars
    /\ [][C32_FullInterval]_vars

(***************************************************************************)
(* Claims about the control operations called during a pass of the loop.   *)
(***************************************************************************)
\* A control operation changes the schedule only between two passes of the
\* loop.
C33_AppliedBetweenPasses ==
    (pOps' # pOps /\ pid_configs' # pid_configs) => pPc = "top"

\* At the end of a pass every entry that was due when the pass began, and
\* is in the schedule and enabled, has been dispatched in the pass.
C33_NoneSkipped ==
    (pPc = "for" /\ pIdx > Len(pid_configs)) =>
        \A i \in 1..Len(pAtTop) :
            ( /\ should_poll(pAtTop[i], current_time)
              /\ \E j \in 1..Len(pid_configs) :
                    /\ pid_configs[j].pid = pAtTop[i].pid
                    /\ pid_configs[j].enabled )
                => \E k \in 1..Len(pTick) : pTick[k] = pAtTop[i].pid

\* No pid is dispatched twice in one pass.
C33_NoneTwice ==
    \A i, j \in 1..Len(pTick) : i < j => pTick[i] # pTick[j]

\* The parts of C33 as formulas of their own.
C33_StepBetweenPasses == [][C33_AppliedBetweenPasses]_vars
C33_PassNoneSkipped == []C33_NoneSkipped
C33_PassNoneTwice == []C33_NoneTwice

\* C33: the control operations called from another thread take effect on
\* the schedule between two passes of the loop only, so that in a pass no
\* entry is skipped and none is dispatched twice.
C33_ScheduleOwnThread ==
    /\ [][C33_AppliedBetweenPasses]_vars
    /\ []C33_NoneSkipped
    /\ []C33_NoneTwice

(***************************************************************************)
(* Claims about the shutdown at the spool.                                 *)
(***************************************************************************)
\* The worker thread is outside the spool's methods.
C34_WorkerOutside == cPc[Worker] \in {"loop", "dequeue", "stopped"}

\* Once close() has closed the connection the worker is in no method of the
\* spool.
C34_ClosedAfterUse == ~connOpen => C34_WorkerOutside

\* Once stop() has closed the spool and the worker has left its loop, every
\* message add_message was called with is in a batch that was inserted.
C34_AllCommitted ==
    (cPc[Main] = "done" /\ cPc[Worker] = "stopped") =>
        \A id \in 1..(nextMsg - 1) : CountInLog(flushLog, id) >= 1

\* C34: in stop() the store is closed only after the publisher worker has
\* stopped using it, and every record add_message accepted before or
\* during the shutdown is in a committed batch when stop() has returned.
C34_ShutdownOrder == C34_ClosedAfterUse /\ C34_AllCommitted

\* ---- C35: shutdown drains the pipeline ----
\* stop() has returned and the three workers have left their loops.
C35_Stopped ==
    /\ sdPc["main"] = "returned"
    /\ \A w \in Workers : sdPc[w] = "exited"

\* Both queues are empty when stop() has returned.
C35_QueuesEmpty == C35_Stopped => sdCanQ = <<>> /\ sdDecQ = <<>>

\* Every frame read before the shutdown was requested, and not lost to an
\* exception or a full queue, is in a stored batch when stop() has returned.
C35_AllFlushed == C35_Stopped => (sdReadBefore \ sdFailed) \subseteq sdStored

\* A frame leaves the pipeline only towards the spool: whatever was read and
\* not lost is in a queue, in the batch in memory or in a stored batch.
C35_NothingVanishes ==
    \A f \in 1..(sdNext - 1) :
        \/ f \in sdFailed \/ f \in sdStored
        \/ f \in Range(sdCanQ) \/ f \in Range(sdDecQ) \/ f \in Range(sdBatch)

\* C35: every frame read before the shutdown was requested is decoded,
\* spooled and in a flushed batch before the store is closed, and both
\* queues are empty when stop() returns.
C35_ShutdownDrains == C35_QueuesEmpty /\ C35_AllFlushed

\* ---- C36: shutdown terminates ----
\* Every loop has seen its flag and ended.
C36_AllExited == \A t \in Workers \cup Services : sdPc[t] = "exited"

\* A call of stop() is under way.
C36_InStop == sdPc["main"] \notin {"run", "returned", "raised"}

\* Once stop() has been called every loop ends.
C36_LoopsExit == (sdCall >= 1) ~> C36_AllExited

\* A call of stop() comes to its end.
C36_StopEnds == C36_InStop ~> (sdPc["main"] \in {"returned", "raised"})

\* No call of stop() ends with an exception.
C36_NoError == sdPc["main"] # "raised"

\* The second call of stop() changes neither a flag nor the bus, the
\* connection, the batch or the stored batches.
C36_SecondChangesNothing ==
    [][sdCall = 2 /\ sdPc'["main"] # sdPc["main"] =>
         UNCHANGED <<sdRunning, sdFlag, sdBus, sdConn, sdBatch, sdStored>>]_vars

\* C36: after stop() is called every worker loop sees its stop flag and
\* exits and stop() returns; a second call of stop() returns without error
\* and changes nothing.
C36_ShutdownTerminates ==
    /\ C36_LoopsExit /\ C36_StopEnds
    /\ []C36_NoError /\ C36_SecondChangesNothing

\* ---- C37: error containment ----
\* A worker leaves its loop only when the running flag is down.
C37_WorkersStay == \A w \in Workers : sdPc[w] = "exited" => ~sdRunning

\* A step that loses a frame leaves the worker that took it at the test of
\* its loop and moves no other thread.
C37_StepContained ==
    [][sdFailed' # sdFailed =>
         \E w \in Workers :
             /\ sdPc[w] = "body" /\ sdPc'[w] = "while"
             /\ \A t \in (Workers \cup Services \cup {"main"}) \ {w} :
                    sdPc'[t] = sdPc[t]]_vars

\* While the gateway runs, a frame that follows a lost one gets stored.
C37_LaterStored ==
    /\ sdRunning
    /\ \E f \in sdFailed : \E g \in sdStored : g > f
    /\ \A w \in Workers : sdPc[w] # "exited"

\* C37: a failure on one frame or record in the reader, the decoder or the
\* publisher worker ends neither that worker nor another stage; while the
\* gateway runs every worker stays in its loop.
C37_ErrorContainment ==
    sdFailed # {} /\ sdRunning =>
        \A w \in Workers : sdPc[w] \in {"while", "body"}

\* ---- C38: peek is non-destructive ----
\* peek returns the head the queue had when it was called.
C38_ReturnsHead ==
    [][pkPc = "got" /\ pkPc' = "idle" => pkRet' = <<Head(pkBefore)>>]_vars

\* peek leaves the queue as it was, but for what was enqueued meanwhile.
C38_Unchanged ==
    [][pkPc = "got" /\ pkPc' = "idle" =>
         /\ Len(_queue') >= Len(pkBefore)
         /\ SubSeq(_queue', 1, Len(pkBefore)) = pkBefore]_vars

\* The dequeue that follows a peek returns the message peek returned.
C38_DequeueSame ==
    [][/\ pkPc = "idle" /\ pkRet # <<>> /\ pkDequeued = _total_dequeued
       /\ Len(qDelivered') = Len(qDelivered) + 1
       => qDelivered'[Len(qDelivered')] = pkRet[1]]_vars

\* Every message accepted is in the queue, in the hand of peek or delivered.
C38_NoneLost ==
    \A m \in Range(qAccepted) :
        m \in Range(_queue) \cup Range(pkMsg) \cup Range(qDelivered)

\* The queue holds no message twice.
C38_NoneTwice ==
    \A i, j \in 1..Len(_queue) : _queue[i] = _queue[j] => i = j

\* C38: peek returns the head and leaves the queue unchanged, a following
\* dequeue returns the message peek returned, and under concurrent enqueue
\* peek loses no queued message.
C38_PeekNonDestructive ==
    /\ C38_ReturnsHead /\ C38_Unchanged /\ C38_DequeueSame
    /\ []C38_NoneLost

\* ---- C39: telemetry messageId ----
\* The telemetry messages built so far, by place: <<i, k>> is the k-th
\* message of the i-th stored batch, <<0, k>> the k-th since the last store.
C39_Telemetry ==
    {<<0, k>> : k \in 1..Len(sinceFlush)}
        \cup UNION {{<<i, k>> : k \in 1..Len(flushLog[i].messages)} :
                      i \in 1..Len(flushLog)}

C39_MessageId(r) ==
    IF r[1] = 0 THEN sinceFlush[r[2]].messageId
                ELSE flushLog[r[1]].messages[r[2]].messageId

\* Two distinct records have different messageIds.
C39_Distinct ==
    \A r, s \in C39_Telemetry : r # s => C39_MessageId(r) # C39_MessageId(s)

\* A stored batch keeps its messages, so a batch sent again carries the
\* messageIds it carried the first time.
C39_ResendSame ==
    [][\A i \in 1..Len(db) : \A j \in 1..Len(db') :
          db[i].id = db'[j].id => db[i].batch_data = db'[j].batch_data]_vars

\* C39: any two distinct decoded records turned into telemetry carry
\* different messageIds, and a batch sent again after a failure carries the
\* same messageId for the same record.
C39_MessageIds == []C39_Distinct /\ C39_ResendSame

\* ---- C40: a failing sink does not starve the schedule ----
\* The entries of the schedule other than the failing one.
C40_Others == {i \in 1..Len(pid_configs) : pid_configs[i].pid # FailingPid}

\* Every other enabled entry, due from the start, is dispatched in the end.
C40_OthersDispatched ==
    \A i \in 1..Len(PollConfig) :
        PollConfig[i].pid # FailingPid
            => <>(pLastDispatch[PollConfig[i].pid] # 0)

\* A pass that ends has dispatched every other entry that was due in it.
C40_PassComplete ==
    [][pPc = "for" /\ pPc' = "top" =>
         \A i \in C40_Others :
             should_poll(pAtTop[i], current_time)
                 => pid_configs[i].pid \in Range(pTick)]_vars

\* The loop goes on after the callback raised.
C40_LoopGoesOn == [][pPc = "for" => pPc' \in {"for", "top"}]_vars

====
